---- MODULE Spec2Model ----
(***************************************************************************)
(* Model of the installation discovery and managed-module resolution code  *)
(* of tia_tags_exporter: discovery.py (pruned scan with de-duplication),   *)
(* validation.py (required-file validation and quality tier),              *)
(* gui/wizard.py (ranking and auto-save decision) and loader_multi.py      *)
(* (assembly index and the AssemblyResolve hook).                          *)
(*                                                                         *)
(* Paths are sequences of parts, the first part being the drive root       *)
(* ("C:\\"), as pathlib's Path.parts gives them on Windows.  Strings are   *)
(* TLA+ strings; lower-casing, substring search and comparison are         *)
(* computed character by character.                                        *)
(***************************************************************************)
EXTENDS Integers, Sequences, FiniteSets, TLC

(***************************************************************************)
(* Python string primitives                                                *)
(***************************************************************************)

\* The characters that occur in the model's strings, in code-point order.
CharOrder == " $()-./0123456789:<>ABCDEFGHIJKLMNOPQRSTUVWXYZ\\abcdefghijklmnopqrstuvwxyz~"

CharAt(s, i) == SubSeq(s, i, i)

\* ord(c), up to an order-preserving renumbering.
ord(c) == CHOOSE i \in 1..Len(CharOrder) : CharAt(CharOrder, i) = c

\* The lower-case form of each upper-case letter.
LowerOf ==
    ("A" :> "a") @@ ("B" :> "b") @@ ("C" :> "c") @@ ("D" :> "d") @@ ("E" :> "e") @@ ("F" :> "f") @@ ("G" :> "g") @@
    ("H" :> "h") @@ ("I" :> "i") @@ ("J" :> "j") @@ ("K" :> "k") @@ ("L" :> "l") @@ ("M" :> "m") @@ ("N" :> "n") @@
    ("O" :> "o") @@ ("P" :> "p") @@ ("Q" :> "q") @@ ("R" :> "r") @@ ("S" :> "s") @@ ("T" :> "t") @@ ("U" :> "u") @@
    ("V" :> "v") @@ ("W" :> "w") @@ ("X" :> "x") @@ ("Y" :> "y") @@ ("Z" :> "z")

lowerChar(c) == IF c \in DOMAIN LowerOf THEN LowerOf[c] ELSE c

RECURSIVE lower(_)
\* str.lower()
lower(s) == IF s = "" THEN "" ELSE lowerChar(CharAt(s, 1)) \o lower(SubSeq(s, 2, Len(s)))

RECURSIVE replace(_, _, _)
\* str.replace(old, new) for single-character old and new
replace(s, old, new) ==
    IF s = "" THEN ""
    ELSE (IF CharAt(s, 1) = old THEN new ELSE CharAt(s, 1)) \o replace(SubSeq(s, 2, Len(s)), old, new)

\* str.startswith(t)
startswith(s, t) == Len(t) <= Len(s) /\ SubSeq(s, 1, Len(t)) = t

\* str.endswith(t)
endswith(s, t) == Len(t) <= Len(s) /\ SubSeq(s, Len(s) - Len(t) + 1, Len(s)) = t

\* the Python test  t in s
contains(s, t) == \E i \in 1..(Len(s) - Len(t) + 1) : SubSeq(s, i, i + Len(t) - 1) = t

RECURSIVE rstrip(_, _)
\* str.rstrip(ch) for a single character ch
rstrip(s, ch) == IF s # "" /\ CharAt(s, Len(s)) = ch THEN rstrip(SubSeq(s, 1, Len(s) - 1), ch) ELSE s

RECURSIVE strLess(_, _)
\* the Python comparison  s < t  of two strings
strLess(s, t) ==
    IF t = "" THEN FALSE
    ELSE IF s = "" THEN TRUE
    ELSE IF CharAt(s, 1) = CharAt(t, 1) THEN strLess(SubSeq(s, 2, Len(s)), SubSeq(t, 2, Len(t)))
    ELSE ord(CharAt(s, 1)) < ord(CharAt(t, 1))

RECURSIVE join(_, _)
\* sep.join(items)
join(sep, items) ==
    IF items = <<>> THEN ""
    ELSE IF Len(items) = 1 THEN items[1]
    ELSE items[1] \o sep \o join(sep, Tail(items))

(***************************************************************************)
(* pathlib.Path on Windows                                                 *)
(***************************************************************************)

\* The absent value of an Optional[Path] field.
NoPath == <<>>

\* The absent value of an Optional[str] field.
None == "<None>"

\* str(path): the drive root followed by the other parts joined by backslashes
str(path) == path[1] \o join("\\", Tail(path))

\* path / child
Div(path, child) == Append(path, child)

\* path.name
name(path) == path[Len(path)]

\* path.parent
parent(path) == IF Len(path) > 1 THEN SubSeq(path, 1, Len(path) - 1) ELSE path

(***************************************************************************)
(* validation.py and discovery.py: constants                               *)
(***************************************************************************)

REQUIRED_DLLS == <<"Siemens.Engineering.dll", "Siemens.Engineering.Hmi.dll", "Siemens.Engineering.AddIn.dll">>

CORE_DLL_NAME == REQUIRED_DLLS[1]

KEYWORDS == <<"siemens", "portal", "tia", "automation", "publicapi", "openness", "v17">>

ALWAYS_ALLOW_NAMES ==
    {"program files", "program files (x86)", "programdata", "siemens", "automation", "users",
     "public", "documents", "public documents", "portal", "tia portal", "tia-portal"}

SKIP_DIR_NAMES ==
    {"$recycle.bin", "system volume information", "msocache", "config.msi", "windows", "temp",
     "tmp", "appdata", "perflogs", "recovery"}

(***************************************************************************)
(* The file system the scan reads.  dirs: the real directories; links:     *)
(* directory symlinks (link path -> real target); files: the required      *)
(* files that are regular files of each real directory; filelinks: file    *)
(* symlinks (link path -> real target file path).                          *)
(***************************************************************************)

CDrive == <<"C:\\">>

DDrive == <<"D:\\">>

PF == <<"C:\\", "Program Files">>

PFSiemens == <<"C:\\", "Program Files", "Siemens">>

PFAutomation == <<"C:\\", "Program Files", "Siemens", "Automation">>

PFPortal == <<"C:\\", "Program Files", "Siemens", "Automation", "Portal V17">>

PFPublicAPI == <<"C:\\", "Program Files", "Siemens", "Automation", "Portal V17", "PublicAPI">>

PFV17 == <<"C:\\", "Program Files", "Siemens", "Automation", "Portal V17", "PublicAPI", "V17">>

PD == <<"C:\\", "ProgramData">>

PDSiemens == <<"C:\\", "ProgramData", "Siemens">>

PDLib == <<"C:\\", "ProgramData", "Siemens", "Lib">>

PDLibX64 == <<"C:\\", "ProgramData", "Siemens", "Lib", "x64">>

PDTemp == <<"C:\\", "ProgramData", "Siemens", "Temp">>

PDTilde == <<"C:\\", "ProgramData", "Siemens", "~Portal">>

DUsers == <<"D:\\", "Users">>

DPublic == <<"D:\\", "Users", "Public">>

DOpenness == <<"D:\\", "Users", "Public", "Openness">>

DData == <<"D:\\", "Data">>

DDataV17 == <<"D:\\", "Data", "V17">>

DDataPublicAPI == <<"D:\\", "Data", "PublicAPI">>

\* The real directories of the modelled machine.
RealDirs ==
    {CDrive, PF, PFSiemens, PFAutomation, PFPortal, PFPublicAPI, PFV17, PD, PDSiemens, PDLib,
     PDLibX64, PDTemp, PDTilde, DDrive, DUsers, DPublic, DOpenness, DData, DDataV17, DDataPublicAPI}

\* The directories in which required files may lie.
FileDirs == {PFV17, PDSiemens, PDLib, DOpenness}

\* A junction D:\Siemens and a symlink D:\Users\Public\Siemens, both to C:\ProgramData\Siemens.
DSiemensLink == <<"D:\\", "Siemens">>

DPublicLink == <<"D:\\", "Users", "Public", "Siemens">>

\* The order in which a directory listing returns the names.
NameOrder ==
    <<"Program Files", "ProgramData", "Siemens", "Automation", "Portal V17", "PublicAPI",
      "PublicAPI_V16", "V17", "Lib", "x64", "Temp", "~Portal", "Users", "Public", "Openness", "Data",
      "TIA Portal">>

\* fs: the file system and platform the program runs on.
VARIABLES fs

\* discover_candidates.  drives: selected_drives; pc: where the generator stands ("guesses",
\* "walk", "done"); gi: index of the next guess; di: index of the next drive to walk; roots:
\* the walk roots of the current drive still to start; stack: the directories os.walk has
\* still to visit under the current root, next first; seen_dirs, seen_core_files: the
\* generator's two sets; yielded: the candidates yielded so far, in order; tried: the
\* folders handed to _try_emit so far, in order; walked: the (parent, child name, kept)
\* pruning decisions iter_dirs has made.
VARIABLES drives, pc, gi, di, roots, stack, seen_dirs, seen_core_files, yielded, tried, walked

\* validate_candidate and assess_quality as functions.  cand_in: the Candidate passed;
\* cand_out: the Candidate returned (NoPath before the call); path_in: the resolved path of
\* the primary file that DiscoveryWorker._record_found keeps and _score_path_option rates
\* (NoPath before); quality_out: the tier assess_quality gave it (None before).
VARIABLES cand_in, cand_out, path_in, quality_out

\* DllWizard.  valid_candidates: self.valid_candidates, in arrival order; wpc: "scanning"
\* until on_finished has run, then "finished"; ranked: the list on_finished sorted;
\* _profile_saved: self._profile_saved; saved_profile: the folder of the profile in the
\* store (NoPath when none); user_selected: the user has chosen a row since the scan.
VARIABLES valid_candidates, wpc, ranked, _profile_saved, saved_profile, user_selected

\* found_dlls: self.found_dlls, for each required name the sorted paths the scan recorded;
\* multi: what the call of _build_multidir_candidate in on_finished gave (NotRun when it
\* was not called); summary: the header of the message _show_missing_summary showed
\* (None when none).  wpc is "failed" when on_finished ended with an exception.
VARIABLES found_dlls, multi, summary

\* loader_multi.  disk: for each directory, its *.dll files in glob order;
\* _TIAEXP_RESOLVE_INSTALLED and asm_index (_RESOLVE_STATE["asm_index"]): the module
\* globals; handlers: how many handlers the process has registered with AssemblyResolve;
\* loads: the outcome of each prepare_and_load call so far; built: the search
\* directories, the files and the index of the last _index_managed call; request: the
\* resolution request being answered (<<>> when none) and answer: what the hook returned;
\* prev_index: the index the last _install_resolver call replaced.
VARIABLES disk, _TIAEXP_RESOLVE_INSTALLED, asm_index, handlers, loads, built, request, answer
VARIABLES prev_index

\* The load attempt.  unloadable: the paths of the files AddReference and LoadFrom throw
\* on; report: the dict the last completed prepare_and_load returned; attempts: the names
\* its inner _load was called with, in call order; ensure_dll: the argument of the
\* last ensure_clr_and_load call (None when none) and clr_result: the ClrLoadResult it
\* returned.
VARIABLES unloadable, report, attempts, ensure_dll, clr_result

\* DiscoveryWorker.run against the GUI thread.  _abort: the worker's flag; wk: where run
\* stands ("idle" before start, "next", "check", "emit", "finally", "done"); to_scan: the
\* candidates discover_candidates has still to yield; cur: the candidate of the current
\* iteration (NoPath when none); found_global: the (name, resolved path) pairs
\* _record_found has kept; queue: the signals emitted by the worker thread and not yet
\* delivered to their slots; emitted: the folders found.emit was called with, in order;
\* table: the folders of the table rows on_found has inserted; candidates:
\* self.candidates; gui: "idle" while the GUI thread runs its event loop, "waiting"
\* while on_abort blocks in worker.wait.  emitted_at_abort, wk_at_abort and
\* table_at_abort record Len(emitted), wk and table when abort() set the flag (-1, "",
\* <<>> before).
VARIABLES _abort, wk, to_scan, cur, found_global, queue, emitted, table, candidates, gui
VARIABLES emitted_at_abort, wk_at_abort, table_at_abort

\* HmiExporter.export_targets.  project: the devices of the session's project, each with
\* its device items; target_filter: the identifiers passed (NoFilter for None); hpc: where
\* export_targets stands ("idle", "start", "items", "bundle", "done"); targets: the list
\* after filtering; hi: the position of the loops of lines 108-135 in the device items
\* taken device by device; area_i: the position of the loop of _export_bundle in exports;
\* results: the list built so far; returned: what export_targets returned (NotReturned
\* before).
VARIABLES project, target_filter, hpc, targets, hi, area_i, results, returned

hmiVars == <<project, target_filter, hpc, targets, hi, area_i, results, returned>>

\* DiscoveryWorker.run over the real generator.  taken: how many of the candidates
\* discover_candidates yielded the for loop of run has received.
VARIABLES taken

genVars == <<taken>>

\* call_log: for each prepare_and_load call so far, whether it raised and the names of
\* the modules whose file it passed to add_reference, in call order.
VARIABLES call_log

logVars == <<call_log>>

\* _discover_dirs and _prepare_env.  public_api_dir: the argument of prepare_and_load;
\* derived: the search_dirs list _discover_dirs returned (NotDerived before); Path:
\* os.environ["Path"]; prev_Path: its value when the last _prepare_env call started;
\* env_calls: how many times _prepare_env has run.
VARIABLES public_api_dir, derived, Path, prev_Path, env_calls
envVars == <<public_api_dir, derived, Path, prev_Path, env_calls>>

\* on_scan pressed again while a scan runs.  worker: self.worker, the number of the
\* DiscoveryWorker it refers to (0 for None); started: how many workers on_scan has
\* created; flags, at, todo, cand_of, founds: for each worker its _abort, where its run
\* stands ("unstarted", "next", "check", "emit", "finally", "done"), the candidates its
\* generator has still to yield, the candidate of its current iteration and its
\* found_global; events: the slot calls queued for the GUI thread, each with the worker
\* that emitted the signal; rows and self_candidates: the rows of self.table and the
\* entries of self.candidates,
\* each with the worker whose signal added it; busy: what _busy was last called with;
\* gui_at: "idle" in the event loop, "waiting" inside worker.wait(100) of on_scan;
\* finished_log: for each on_finished run, the worker whose signal it answered, the
\* worker self.worker referred to when it began and where that worker's run stood.
VARIABLES worker, started, flags, at, todo, cand_of, founds, events, rows, self_candidates,
          busy, gui_at, finished_log
rescanVars ==
    <<worker, started, flags, at, todo, cand_of, founds, events, rows, self_candidates, busy,
      gui_at, finished_log>>

\* _candidate_roots addition by addition.  root_dict: the dict roots, as its <<key, path>>
\* items in insertion order; additions: the paths add has still to be called with;
\* added: the paths it was called with, in order; returned_roots: the list returned
\* (NoRoots before).
VARIABLES root_dict, additions, added, returned_roots
rootsVars == <<root_dict, additions, added, returned_roots>>

moreVars == <<envVars, rescanVars, rootsVars>>

\* The state of the parts added to the model after the scan, the wizard and the loader.
restVars == <<hmiVars, genVars, logVars, moreVars>>

scanVars == <<drives, pc, gi, di, roots, stack, seen_dirs, seen_core_files, yielded, tried, walked>>

validateVars == <<cand_in, cand_out, path_in, quality_out>>

wizardVars ==
    <<valid_candidates, wpc, ranked, _profile_saved, saved_profile, user_selected,
      found_dlls, multi, summary>>

loaderVars ==
    <<disk, _TIAEXP_RESOLVE_INSTALLED, asm_index, handlers, loads, built, request, answer,
      prev_index, unloadable, report, attempts, ensure_dll, clr_result>>

workerVars ==
    <<_abort, wk, to_scan, cur, found_global, queue, emitted, table, candidates, gui,
      emitted_at_abort, wk_at_abort, table_at_abort>>

vars == <<fs, scanVars, validateVars, wizardVars, loaderVars, workerVars, restVars>>

RECURSIVE resolveFrom(_, _, _)
resolveFrom(done, rest, links) ==
    IF rest = <<>> THEN done
    ELSE LET next == Append(done, Head(rest))
         IN resolveFrom(IF next \in DOMAIN links THEN links[next] ELSE next, Tail(rest), links)

\* Path.resolve(): symlinks followed, component by component
resolve(path) ==
    LET r == resolveFrom(<<path[1]>>, Tail(path), fs.links)
    IN IF r \in DOMAIN fs.filelinks THEN fs.filelinks[r] ELSE r

\* Path.is_dir()
is_dir(path) == resolve(path) \in fs.dirs

is_file(path) ==
    LET r == resolve(path)
    IN Len(r) > 1 /\ parent(r) \in fs.dirs /\ name(r) \in fs.files[parent(r)]

\* Path.exists()
exists(path) == is_dir(path) \/ is_file(path)

\* Path.is_symlink(): the last component itself is a link
is_symlink(path) ==
    LET p == Div(resolve(parent(path)), name(path))
    IN Len(path) > 1 /\ (p \in DOMAIN fs.links \/ p \in DOMAIN fs.filelinks)

\* The sub-directory names a listing of path returns (os.scandir, Path.iterdir).
dirnames(path) ==
    LET r == resolve(path)
    IN SelectSeq(NameOrder, LAMBDA n : Div(r, n) \in fs.dirs \/ Div(r, n) \in DOMAIN fs.links)

(***************************************************************************)
(* discovery.py                                                            *)
(***************************************************************************)

\* _path_key after path.resolve(): separators normalised, lower-cased, trailing "/" stripped
key_string(resolved) ==
    LET value == lower(replace(str(resolved), "\\", "/"))
    IN IF endswith(value, "/") THEN rstrip(value, "/") ELSE value

has_keyword(lowered) == \E i \in 1..Len(KEYWORDS) : contains(lowered, KEYWORDS[i])

\* key_string and has_keyword of the real directories and their required files, computed once.
RealPaths == RealDirs \cup {Div(d, REQUIRED_DLLS[i]) : d \in RealDirs, i \in 1..Len(REQUIRED_DLLS)}

KeyTable == [p \in RealPaths |-> key_string(p)] @@ <<>>

KeywordTable == [p \in RealPaths |-> has_keyword(key_string(p))] @@ <<>>

_path_key(path) ==
    LET resolved == resolve(path)
    IN IF resolved \in RealPaths THEN KeyTable[resolved] ELSE key_string(resolved)

_path_has_keyword(path) ==
    LET resolved == resolve(path)
    IN IF resolved \in RealPaths THEN KeywordTable[resolved] ELSE has_keyword(_path_key(path))

\* A plausible slip: relevance taken from the parent alone.
_should_descend_parent_only(parentPath, child_name) ==
    LET lowerName == lower(child_name)
        candidate == Div(parentPath, child_name)
    IN IF lowerName \in SKIP_DIR_NAMES \/ startswith(lowerName, "~") THEN FALSE
       ELSE IF is_symlink(candidate) THEN FALSE
       ELSE IF lowerName \in ALWAYS_ALLOW_NAMES THEN TRUE
       ELSE IF _path_has_keyword(parentPath) THEN TRUE
       ELSE FALSE

\* A plausible slip: the keyword looked for in the names of the child and of its parent
\* instead of their whole paths.
_should_descend_names_only(parentPath, child_name) ==
    LET lowerName == lower(child_name)
        candidate == Div(parentPath, child_name)
    IN IF lowerName \in SKIP_DIR_NAMES \/ startswith(lowerName, "~") THEN FALSE
       ELSE IF is_symlink(candidate) THEN FALSE
       ELSE IF has_keyword(lowerName) THEN TRUE
       ELSE IF lowerName \in ALWAYS_ALLOW_NAMES THEN TRUE
       ELSE IF has_keyword(lower(name(parentPath))) THEN TRUE
       ELSE FALSE

_should_descend(parentPath, child_name) ==
    LET lowerName == lower(child_name)
        candidate == Div(parentPath, child_name)
    IN IF lowerName \in SKIP_DIR_NAMES \/ startswith(lowerName, "~") THEN FALSE
       ELSE IF is_symlink(candidate) THEN FALSE
       ELSE IF _path_has_keyword(candidate) THEN TRUE
       ELSE IF lowerName \in ALWAYS_ALLOW_NAMES THEN TRUE
       ELSE IF _path_has_keyword(parentPath) THEN TRUE
       ELSE FALSE

(***************************************************************************)
(* validation.py                                                           *)
(***************************************************************************)

Digits == "0123456789"

\* time.strftime("%Y-%m-%d %H:%M:%S", time.localtime(ts)) for the first minute of the epoch, UTC
strftime(ts) ==
    "1970-01-01 00:00:" \o CharAt(Digits, (ts \div 10) + 1) \o CharAt(Digits, (ts % 10) + 1)

\* get_file_version_win: the PowerShell read of FileVersion, None when it fails or is empty
get_file_version_win(path) ==
    LET r == resolve(path) IN IF r \in DOMAIN fs.version THEN fs.version[r] ELSE None

\* A plausible slip: the family marker tested before the version marker.
assess_quality_family_first(dll_path) ==
    LET parts == [i \in 1..Len(dll_path) |-> lower(dll_path[i])]
        has_publicapi == \E i \in 1..Len(parts) : contains(parts[i], "publicapi")
        has_v17 == \E i \in 1..Len(parts) : contains(parts[i], "v17")
        ends_correctly == parts[Len(parts)] = "siemens.engineering.dll"
    IN IF has_publicapi /\ has_v17 /\ ends_correctly THEN "exact"
       ELSE IF has_publicapi THEN "good"
       ELSE IF has_v17 THEN "v17-path"
       ELSE "heuristic"

assess_quality(dll_path) ==
    LET parts == [i \in 1..Len(dll_path) |-> lower(dll_path[i])]
        has_publicapi == \E i \in 1..Len(parts) : contains(parts[i], "publicapi")
        has_v17 == \E i \in 1..Len(parts) : contains(parts[i], "v17")
        ends_correctly == parts[Len(parts)] = "siemens.engineering.dll"
    IN IF has_publicapi /\ has_v17 /\ ends_correctly THEN "exact"
       ELSE IF has_v17 THEN "v17-path"
       ELSE IF has_publicapi THEN "good"
       ELSE "heuristic"

\* The dataclass Candidate with its field defaults.
Candidate(folder, engineering_dll, hmi_dll, addin_dll) ==
    [folder |-> folder, engineering_dll |-> engineering_dll, hmi_dll |-> hmi_dll,
     addin_dll |-> addin_dll, version |-> None, token |-> None, is_valid |-> FALSE,
     reason |-> None, quality |-> "heuristic", last_write |-> None, missing |-> <<>>]

\* The name of a required file whose field is unset or does not exist, else nothing.
missing_if_absent(path, n) == IF path # NoPath /\ exists(path) THEN <<>> ELSE <<n>>

\* A plausible slip: the AddIn check made before the Hmi check.
missing_of_reordered(c) ==
    missing_if_absent(c.engineering_dll, "Siemens.Engineering.dll")
    \o missing_if_absent(c.addin_dll, "Siemens.Engineering.AddIn.dll")
    \o missing_if_absent(c.hmi_dll, "Siemens.Engineering.Hmi.dll")

\* validate_candidate, the list missing
missing_of(c) ==
    missing_if_absent(c.engineering_dll, "Siemens.Engineering.dll")
    \o missing_if_absent(c.hmi_dll, "Siemens.Engineering.Hmi.dll")
    \o missing_if_absent(c.addin_dll, "Siemens.Engineering.AddIn.dll")

\* validate_candidate, the fields read from the primary file
core_fields(c) ==
    LET core == IF c.engineering_dll # NoPath /\ exists(c.engineering_dll) THEN c.engineering_dll ELSE NoPath
    IN IF core # NoPath
       THEN [c EXCEPT !.version = get_file_version_win(core),
                      !.quality = assess_quality(core),
                      !.last_write = IF resolve(core) \in fs.nostat THEN None
                                     ELSE strftime(fs.mtime[resolve(core)])]
       ELSE [c EXCEPT !.version = None, !.quality = "heuristic", !.last_write = None]

\* A plausible slip: a candidate with its primary file counts as valid.
validate_candidate_core_only(c) ==
    LET missing == missing_of(c)
        c2 == core_fields([c EXCEPT !.missing = missing])
    IN IF missing # <<>> /\ missing[1] = "Siemens.Engineering.dll"
       THEN [c2 EXCEPT !.is_valid = FALSE, !.reason = "Missing: " \o join(", ", missing)]
       ELSE [c2 EXCEPT !.is_valid = TRUE, !.reason = None]

validate_candidate(c) ==
    LET missing == missing_of(c)
        c2 == core_fields([c EXCEPT !.missing = missing])
    IN IF missing # <<>>
       THEN [c2 EXCEPT !.is_valid = FALSE, !.reason = "Missing: " \o join(", ", missing)]
       ELSE [c2 EXCEPT !.is_valid = TRUE, !.reason = None]

(***************************************************************************)
(* discovery.py: discover_candidates                                       *)
(***************************************************************************)

\* _collect_required as the dict name -> folder / name of the required files that exist
_collect_required(folder) ==
    IF ~exists(folder) \/ ~is_dir(folder) THEN <<>>
    ELSE SelectSeq(REQUIRED_DLLS, LAMBDA n : exists(Div(folder, n)))

\* found.get(name)
found_get(folder, found, n) ==
    IF \E i \in 1..Len(found) : found[i] = n THEN Div(folder, n) ELSE NoPath

\* roots.pop(existing_key, None) on the dict roots, kept as the sequence of its
\* <<key, path>> items in insertion order
roots_pop(found, key) == SelectSeq(found, LAMBDA item : item[1] # key)

\* roots[key] = path: the item of the key is replaced where it stands, a new one goes last
roots_set(found, key, path) ==
    IF \E i \in 1..Len(found) : found[i][1] = key
    THEN [i \in 1..Len(found) |-> IF found[i][1] = key THEN <<key, path>> ELSE found[i]]
    ELSE Append(found, <<key, path>>)

RECURSIVE roots_add_loop_no_pop(_, _, _, _)
\* A plausible slip: the loop returns at an ancestor and never removes a root below.
roots_add_loop_no_pop(found, existing_keys, key, path) ==
    IF existing_keys = <<>> THEN roots_set(found, key, path)
    ELSE IF startswith(key, Head(existing_keys) \o "/") THEN found
    ELSE roots_add_loop_no_pop(found, Tail(existing_keys), key, path)

RECURSIVE roots_add_loop(_, _, _, _)
\* the loop of add over list(roots.keys()), lines 121-125, and the assignment after it
roots_add_loop(found, existing_keys, key, path) ==
    IF existing_keys = <<>> THEN roots_set(found, key, path)
    ELSE IF startswith(key, Head(existing_keys) \o "/") THEN found
    ELSE IF startswith(Head(existing_keys), key \o "/")
    THEN roots_add_loop(roots_pop(found, Head(existing_keys)), Tail(existing_keys), key, path)
    ELSE roots_add_loop(found, Tail(existing_keys), key, path)

\* add(path) of _candidate_roots on the dict roots, here found
roots_add(found, path) ==
    IF ~exists(path) \/ ~is_dir(path) THEN found
    ELSE IF _path_key(path) = "" THEN found
    ELSE roots_add_loop(found, [i \in 1..Len(found) |-> found[i][1]], _path_key(path), path)

RECURSIVE roots_add_all(_, _)
roots_add_all(found, paths) ==
    IF paths = <<>> THEN found ELSE roots_add_all(roots_add(found, Head(paths)), Tail(paths))

base_guesses(drive) ==
    <<Div(Div(drive, "Program Files"), "Siemens"),
      Div(Div(Div(drive, "Program Files"), "Siemens"), "Automation"),
      Div(Div(Div(Div(drive, "Program Files"), "Siemens"), "Automation"), "Portal V17"),
      Div(Div(drive, "Program Files (x86)"), "Siemens"),
      Div(Div(Div(drive, "Program Files (x86)"), "Siemens"), "Automation"),
      Div(Div(drive, "ProgramData"), "Siemens"),
      Div(Div(Div(drive, "ProgramData"), "Siemens"), "Automation"),
      Div(Div(Div(Div(drive, "ProgramData"), "Siemens"), "Automation"), "Portal V17"),
      Div(drive, "Siemens"),
      Div(drive, "Portal V17"),
      Div(drive, "TIA Portal")>>

keyword_names == <<"siemens", "portal", "tia", "automation", "publicapi", "openness">>

\* the children of a parent candidate that _candidate_roots adds, in listing order
keyword_children(parentPath) ==
    IF ~is_dir(parentPath) THEN <<>>
    ELSE LET names == SelectSeq(dirnames(parentPath),
                        LAMBDA n : \E i \in 1..Len(keyword_names) : contains(lower(n), keyword_names[i]))
         IN [i \in 1..Len(names) |-> Div(parentPath, names[i])]

RECURSIVE sorted_keys(_)
\* sorted(keys)
sorted_keys(S) ==
    IF S = {} THEN <<>>
    ELSE LET m == CHOOSE k \in S : \A j \in S \ {k} : strLess(k, j)
         IN <<m>> \o sorted_keys(S \ {m})

\* [roots[key] for key in sorted(roots.keys())]
sorted_roots(found) ==
    LET keys == sorted_keys({found[i][1] : i \in 1..Len(found)})
    IN [i \in 1..Len(keys) |-> (CHOOSE item \in {found[j] : j \in 1..Len(found)} :
                                    item[1] = keys[i])[2]]

_candidate_roots(drive) ==
    LET parent_candidates == <<drive, Div(drive, "Program Files"), Div(drive, "Program Files (x86)"),
                               Div(drive, "ProgramData")>>
        r0 == roots_add_all(<<>>, base_guesses(drive))
        r1 == roots_add_all(r0, keyword_children(parent_candidates[1]))
        r2 == roots_add_all(r1, keyword_children(parent_candidates[2]))
        r3 == roots_add_all(r2, keyword_children(parent_candidates[3]))
        r4 == roots_add_all(r3, keyword_children(parent_candidates[4]))
    IN sorted_roots(r4)

\* the paths _candidate_roots calls add with for a drive, in call order (lines 142-163)
additions_of(drive) ==
    base_guesses(drive) \o keyword_children(drive)
        \o keyword_children(Div(drive, "Program Files"))
        \o keyword_children(Div(drive, "Program Files (x86)"))
        \o keyword_children(Div(drive, "ProgramData"))

\* _candidate_roots has not returned.
NoRoots == <<"not returned">>

\* One call of add.
add ==
    /\ additions # <<>>
    /\ root_dict' = roots_add(root_dict, Head(additions))
    /\ added' = Append(added, Head(additions))
    /\ additions' = Tail(additions)
    /\ UNCHANGED <<fs, hmiVars, genVars, logVars, envVars, rescanVars, returned_roots, scanVars,
                   validateVars, wizardVars, loaderVars, workerVars>>

\* return [roots[key] for key in sorted(roots.keys())]
return_roots ==
    /\ additions = <<>> /\ returned_roots = NoRoots
    /\ returned_roots' = sorted_roots(root_dict)
    /\ UNCHANGED <<fs, hmiVars, genVars, logVars, envVars, rescanVars, root_dict, additions, added,
                   scanVars, validateVars, wizardVars, loaderVars, workerVars>>

\* the fast-path guesses of one drive
drive_guesses(drive) ==
    <<Div(Div(Div(Div(Div(Div(drive, "Program Files"), "Siemens"), "Automation"), "Portal V17"), "PublicAPI"), "V17"),
      Div(Div(Div(Div(Div(Div(drive, "Program Files (x86)"), "Siemens"), "Automation"), "Portal V17"), "PublicAPI"), "V17"),
      Div(Div(drive, "ProgramData"), "Siemens")>>

RECURSIVE all_guesses(_)
all_guesses(drvs) ==
    IF drvs = <<>> THEN <<>> ELSE drive_guesses(Head(drvs)) \o all_guesses(Tail(drvs))

\* _try_emit(folder): the candidate returned (NoPath standing for None) and the two sets after
try_emit_core(folder, found, sd, sc) ==
    LET core_path == found_get(folder, found, CORE_DLL_NAME)
        core_key == IF core_path # NoPath THEN _path_key(core_path) ELSE ""
    IN IF core_path # NoPath /\ core_key # "" /\ core_key \in sc
       THEN [cand |-> NoPath, sd |-> sd, sc |-> sc]
       ELSE [cand |-> validate_candidate(Candidate(folder,
                          found_get(folder, found, "Siemens.Engineering.dll"),
                          found_get(folder, found, "Siemens.Engineering.Hmi.dll"),
                          found_get(folder, found, "Siemens.Engineering.AddIn.dll"))),
             sd |-> sd \cup {_path_key(folder)},
             sc |-> IF core_path # NoPath /\ core_key # "" THEN sc \cup {core_key} ELSE sc]

\* A plausible slip: no test against seen_dirs.
_try_emit_unseen(folder, sd, sc) ==
    LET folder_key == _path_key(folder)
        found == _collect_required(folder)
    IN IF folder_key = "" THEN [cand |-> NoPath, sd |-> sd, sc |-> sc]
       ELSE IF found = <<>> THEN [cand |-> NoPath, sd |-> sd, sc |-> sc]
       ELSE try_emit_core(folder, found, sd, sc)

_try_emit(folder, sd, sc) ==
    LET folder_key == _path_key(folder)
        found == _collect_required(folder)
    IN IF folder_key = "" \/ folder_key \in sd THEN [cand |-> NoPath, sd |-> sd, sc |-> sc]
       ELSE IF found = <<>> THEN [cand |-> NoPath, sd |-> sd, sc |-> sc]
       ELSE try_emit_core(folder, found, sd, sc)

\* what one call of _try_emit does to the generator's state
Emit(folder) ==
    LET r == _try_emit(folder, seen_dirs, seen_core_files)
    IN /\ seen_dirs' = r.sd
       /\ seen_core_files' = r.sc
       /\ yielded' = IF r.cand # NoPath THEN Append(yielded, r.cand) ELSE yielded
       /\ tried' = Append(tried, folder)

\* for g in guesses: one iteration
TryGuess ==
    /\ pc = "guesses" /\ gi <= Len(all_guesses(drives))
    /\ Emit(all_guesses(drives)[gi])
    /\ gi' = gi + 1
    /\ UNCHANGED <<fs, restVars, workerVars, drives, pc, di, roots, stack, walked, validateVars, wizardVars, loaderVars>>

\* the guesses are exhausted: the walk loop starts
StartWalk ==
    /\ pc = "guesses" /\ gi > Len(all_guesses(drives))
    /\ pc' = "walk"
    /\ UNCHANGED <<fs, restVars, workerVars, drives, gi, di, roots, stack, seen_dirs, seen_core_files, yielded, tried, walked,
                   validateVars, wizardVars, loaderVars>>

\* for drive in drives: roots = _candidate_roots(drive) or [drive]
NextDrive ==
    /\ pc = "walk" /\ roots = <<>> /\ stack = <<>> /\ di <= Len(drives)
    /\ LET found_roots == _candidate_roots(drives[di])
       IN roots' = IF found_roots = <<>> THEN <<drives[di]>> ELSE found_roots
    /\ di' = di + 1
    /\ UNCHANGED <<fs, restVars, workerVars, drives, pc, gi, stack, seen_dirs, seen_core_files, yielded, tried, walked,
                   validateVars, wizardVars, loaderVars>>

\* for root in roots: os.walk(root) starts
NextRoot ==
    /\ pc = "walk" /\ roots # <<>> /\ stack = <<>>
    /\ stack' = IF is_dir(Head(roots)) THEN <<Head(roots)>> ELSE <<>>
    /\ roots' = Tail(roots)
    /\ UNCHANGED <<fs, restVars, workerVars, drives, pc, gi, di, seen_dirs, seen_core_files, yielded, tried, walked,
                   validateVars, wizardVars, loaderVars>>

\* one iteration of iter_dirs: yield current, _try_emit(current), prune dirnames in place
WalkStep ==
    /\ pc = "walk" /\ stack # <<>>
    /\ LET current == Head(stack)
           names == dirnames(current)
           descend == [i \in 1..Len(names) |-> _should_descend(current, names[i])]
           kept == {i \in 1..Len(names) : descend[i]}
       IN /\ Emit(current)
          /\ stack' = SelectSeq([i \in 1..Len(names) |-> IF i \in kept THEN Div(current, names[i]) ELSE NoPath],
                                LAMBDA q : q # NoPath) \o Tail(stack)
          /\ walked' = walked \cup {[parent |-> current, child |-> names[i], kept |-> i \in kept] :
                                     i \in 1..Len(names)}
    /\ UNCHANGED <<fs, restVars, workerVars, drives, pc, gi, di, roots, validateVars, wizardVars, loaderVars>>

\* the generator is exhausted
Finish ==
    /\ pc = "walk" /\ roots = <<>> /\ stack = <<>> /\ di > Len(drives)
    /\ pc' = "done"
    /\ UNCHANGED <<fs, restVars, workerVars, drives, gi, di, roots, stack, seen_dirs, seen_core_files, yielded, tried, walked,
                   validateVars, wizardVars, loaderVars>>

(***************************************************************************)
(* gui/wizard.py: ranking and auto-save of DllWizard.on_finished           *)
(***************************************************************************)

\* The score of each quality tier, and the default for any other value.
base_score(quality) ==
    CASE quality = "exact" -> 100
      [] quality = "v17-path" -> 75
      [] quality = "good" -> 50
      [] quality = "heuristic" -> 25
      [] OTHER -> 25

\* _score_candidate, the boosts read from the folder path
path_boost(folder) ==
    LET p == replace(lower(str(folder)), "/", "\\")
    IN (IF endswith(p, "\\publicapi\\v17") THEN 15 ELSE 0)
       + (IF contains(p, "portal v17") THEN 10 ELSE 0)
       + (IF contains(p, "publicapi") THEN 5 ELSE 0)
       + (IF contains(p, "automation") /\ contains(p, "portal") THEN 5 ELSE 0)

\* path_boost and str of the directories of the machine, computed once
BoostTable == [d \in RealDirs |-> path_boost(d)] @@ <<>>

StrTable == [d \in RealDirs |-> str(d)] @@ <<>>

folder_str(folder) == IF folder \in RealDirs THEN StrTable[folder] ELSE str(folder)

_score_candidate(c) ==
    base_score(c.quality)
       + (IF c.folder \in RealDirs THEN BoostTable[c.folder] ELSE path_boost(c.folder))
       + (IF c.token # None /\ c.token # "" THEN 3 ELSE 0)
       + (IF c.version # None /\ c.version # "" THEN 1 ELSE 0)

\* c.last_write or ""
last_write_or_empty(c) == IF c.last_write = None THEN "" ELSE c.last_write

\* A plausible slip: the candidates sorted by score alone.
sort_key_less_score_only(a, b) == _score_candidate(a) < _score_candidate(b)

\* key(a) < key(b) for the sort key (score, last_write or "", str(folder)) of on_finished
sort_key_less(a, b) ==
    \/ _score_candidate(a) < _score_candidate(b)
    \/ /\ _score_candidate(a) = _score_candidate(b)
       /\ \/ strLess(last_write_or_empty(a), last_write_or_empty(b))
          \/ /\ last_write_or_empty(a) = last_write_or_empty(b)
             /\ strLess(folder_str(a.folder), folder_str(b.folder))

RECURSIVE insert_desc(_, _)
\* x put into a descending list behind every element whose key is not smaller
insert_desc(x, sortedList) ==
    IF sortedList = <<>> THEN <<x>>
    ELSE IF sort_key_less(Head(sortedList), x) THEN <<x>> \o sortedList
    ELSE <<Head(sortedList)>> \o insert_desc(x, Tail(sortedList))

RECURSIVE sorted_reverse(_)
\* sorted(items, key=..., reverse=True): descending, equal keys in their original order
sorted_reverse(items) ==
    IF items = <<>> THEN <<>>
    ELSE insert_desc(items[Len(items)], sorted_reverse(SubSeq(items, 1, Len(items) - 1)))

\* A plausible slip: >= where on_finished has >.
unambiguous_best_or_equal(rk) ==
    Len(rk) = 1 \/ _score_candidate(rk[1]) >= (IF Len(rk) > 1 THEN _score_candidate(rk[2]) ELSE -1)

\* the test of on_finished before _save_profile(best)
unambiguous_best(rk) ==
    Len(rk) = 1 \/ _score_candidate(rk[1]) > (IF Len(rk) > 1 THEN _score_candidate(rk[2]) ELSE -1)

RECURSIVE sorted_paths(_)
\* sorted(...) of a set of paths kept as strings
sorted_paths(S) ==
    IF S = {} THEN <<>>
    ELSE LET least == CHOOSE a \in S : \A b \in S \ {a} : strLess(str(a), str(b))
         IN <<least>> \o sorted_paths(S \ {least})

RECURSIVE portal_index(_, _)
\* the loop of _portal_root: the last component with 'portal' in it, 0 when none
portal_index(path, i) ==
    IF i = 0 THEN 0
    ELSE IF contains(lower(path[i]), "portal") THEN i
    ELSE portal_index(path, i - 1)

\* _portal_root
_portal_root(path) ==
    LET i == portal_index(path, Len(path))
    IN IF i > 0 THEN SubSeq(path, 1, i) ELSE parent(path)

\* path.stat().st_mtime of an existing file (0 for the files the machine keeps no time of)
mtime_of(path) == IF path \in DOMAIN fs.mtime THEN fs.mtime[path] ELSE 0

\* _score_path_option, the score; preferred_root is NoPath for None
_score_path_option(dll_name, path, preferred_root) ==
    LET lw == lower(replace(str(path), "\\", "/"))
        nm == lower(dll_name)
        qual == assess_quality(path)
    IN (IF preferred_root # NoPath /\ _portal_root(path) = preferred_root THEN 9 ELSE 0)
       + (IF contains(lw, "portal") THEN 7 ELSE 0)
       + (IF contains(lw, "publicapi") THEN 6 ELSE 0)
       + (IF contains(lw, "v17") THEN 10
          ELSE IF contains(lw, "v16") THEN 6
          ELSE IF contains(lw, "v15") THEN 3 ELSE 0)
       + (IF endswith(nm, "engineering.dll")
          THEN (CASE qual = "exact" -> 20 [] qual = "v17-path" -> 12 [] qual = "good" -> 6
                  [] OTHER -> 0)
          ELSE 0)
       + (IF endswith(nm, "addin.dll") /\ contains(lw, "addin") THEN 2 ELSE 0)
       + (IF endswith(nm, "hmi.dll") /\ contains(lw, "hmi") THEN 2 ELSE 0)

\* the sort key of an option: (score, mtime)
option_key(dll_name, path, root_hint) ==
    <<_score_path_option(dll_name, path, root_hint), mtime_of(path)>>

\* the key a is less than or equal to the key b, as Python compares tuples
option_le(a, b) == a[1] < b[1] \/ (a[1] = b[1] /\ a[2] <= b[2])

\* pick: the last element of the stable ascending sort by (score, mtime)
pick(paths, dll_name, root_hint) ==
    LET keys == [j \in 1..Len(paths) |-> option_key(dll_name, paths[j], root_hint)]
        i == CHOOSE k \in 1..Len(paths) :
                 /\ \A j \in 1..Len(paths) : option_le(keys[j], keys[k])
                 /\ \A j \in (k + 1)..Len(paths) : ~option_le(keys[k], keys[j])
    IN paths[i]

\* The keyword arguments the dataclass Candidate accepts: its fields.
CandidateFields ==
    {"folder", "engineering_dll", "hmi_dll", "addin_dll", "version", "token", "is_valid",
     "reason", "quality", "last_write", "missing"}

\* _build_multidir_candidate was not called.
NotRun == [outcome |-> "not run", cand |-> <<>>]

\* _build_multidir_candidate from the constructor call on (lines 457-468), c being the
\* validated candidate of the three chosen files.  The call
\* Candidate(..., note='multi-folder (auto)') raises TypeError, note being no field of
\* the dataclass.
multi_result(c) ==
    IF "note" \notin CandidateFields THEN [outcome |-> "raised", cand |-> <<>>]
    ELSE IF ~c.is_valid THEN [outcome |-> "none", cand |-> <<>>]
    ELSE [outcome |-> "built",
          cand |-> <<[c EXCEPT !.quality = IF c.quality # "" THEN c.quality \o "+multi"
                                           ELSE "multi"]>>]

\* _build_multidir_candidate once best_eng is picked: root_hint, best_hmi, best_addin
multi_around(entries, best_eng, root_hint) ==
    multi_result(validate_candidate(Candidate(parent(best_eng), best_eng,
                     pick(entries[REQUIRED_DLLS[2]], REQUIRED_DLLS[2], root_hint),
                     pick(entries[REQUIRED_DLLS[3]], REQUIRED_DLLS[3], root_hint))))

\* _build_multidir_candidate once the entries are filtered to the existing files
multi_from(entries, best_eng) == multi_around(entries, best_eng, _portal_root(best_eng))

\* _build_multidir_candidate.  outcome "none": it returned None; "raised": it ended
\* with an exception; "built": it returned the candidate cand[1].
_build_multidir_candidate(fd) ==
    LET entries == [n \in DOMAIN fd |-> SelectSeq(fd[n], LAMBDA q : exists(q))]
    IN IF \E i \in 1..Len(REQUIRED_DLLS) : entries[REQUIRED_DLLS[i]] = <<>>
       THEN [outcome |-> "none", cand |-> <<>>]
       ELSE multi_from(entries, pick(entries[REQUIRED_DLLS[1]], REQUIRED_DLLS[1], NoPath))

\* _show_missing_summary, the header of its message
missing_header(fd) ==
    IF \E i \in 1..Len(REQUIRED_DLLS) : fd[REQUIRED_DLLS[i]] = <<>>
    THEN "DLL Wizard must abort: the required Siemens Openness DLLs were not all located."
    ELSE "DLL Wizard must abort: the Siemens Openness DLLs were located but not in a single directory."

\* A plausible slip: the multi-directory candidate is tried on every scan.
no_valid_or_always(vc) == TRUE

\* if not self.valid_candidates
no_valid(vc) == vc = <<>>

\* on_finished.  With no valid candidate: _build_multidir_candidate, whose candidate
\* would go to on_found, and else _show_missing_summary.  With valid candidates: rank
\* them and save the best if it is unambiguous.
on_finished ==
    /\ wpc = "scanning"
    /\ found_dlls' = [n \in {REQUIRED_DLLS[i] : i \in 1..Len(REQUIRED_DLLS)} |->
                         sorted_paths({e[2] : e \in {x \in found_global : x[1] = n}})]
    /\ IF no_valid(valid_candidates)
       THEN /\ multi' = _build_multidir_candidate(found_dlls')
            /\ IF multi'.outcome = "none"
               THEN /\ summary' = missing_header(found_dlls')
                    /\ _profile_saved' = FALSE
                    /\ wpc' = "finished"
                    /\ UNCHANGED valid_candidates
               ELSE \* the exception of _build_multidir_candidate leaves on_finished; so
                    \* would that of on_found(multi), which reads cand.note (line 339)
                    /\ wpc' = "failed"
                    /\ UNCHANGED <<summary, _profile_saved, valid_candidates>>
            /\ UNCHANGED <<ranked, saved_profile>>
       ELSE LET rk == sorted_reverse(valid_candidates)
            IN /\ ranked' = rk
               /\ IF unambiguous_best(rk)
                  THEN saved_profile' = rk[1].folder /\ _profile_saved' = TRUE
                  ELSE UNCHANGED <<saved_profile, _profile_saved>>
               /\ wpc' = "finished"
               /\ UNCHANGED <<multi, summary, valid_candidates>>
    /\ UNCHANGED <<fs, restVars, workerVars, user_selected, scanVars, validateVars, loaderVars>>

\* on_select / double click on a row of a valid candidate: save it and close
on_select ==
    /\ wpc = "finished"
    /\ \E r \in 1..Len(valid_candidates) :
          /\ saved_profile' = valid_candidates[r].folder
          /\ _profile_saved' = TRUE
    /\ user_selected' = TRUE
    /\ wpc' = "closed"
    /\ UNCHANGED <<fs, restVars, workerVars, valid_candidates, ranked, found_dlls, multi, summary,
                   scanVars, validateVars, loaderVars>>

\* closeEvent with no row highlighted: nothing is saved
closeEvent ==
    /\ wpc = "finished"
    /\ wpc' = "closed"
    /\ UNCHANGED <<fs, restVars, workerVars, valid_candidates, ranked, _profile_saved, saved_profile,
                   user_selected, found_dlls, multi, summary, scanVars, validateVars, loaderVars>>

(***************************************************************************)
(* loader_multi.py: _index_managed, _install_resolver and its hook         *)
(***************************************************************************)

\* str(dll) of a file of a directory
full_path(d, f) == d \o "\\" \o f.file

\* asm_index[(name, culture)] = full
dict_set(idx, k, v) == (k :> v) @@ idx

\* asm_index.setdefault((name, ""), full)
dict_setdefault(idx, k, v) == idx @@ (k :> v)

\* dict.get(key), None when the key is absent
dict_get(idx, k) == IF k \in DOMAIN idx THEN idx[k] ELSE None

RECURSIVE index_files_exact_only(_, _, _)
\* A plausible slip: the inner loop without the setdefault of the neutral key.
index_files_exact_only(idx, d, files) ==
    IF files = <<>> THEN idx
    ELSE LET f == Head(files)
             idx1 == dict_set(idx, <<f.name, f.culture>>, full_path(d, f))
         IN index_files_exact_only(IF f.readable THEN idx1 ELSE idx, d, Tail(files))

RECURSIVE index_files_fallback_assigned(_, _, _)
\* A plausible slip: the neutral key of a localized file is assigned, not set by default.
index_files_fallback_assigned(idx, d, files) ==
    IF files = <<>> THEN idx
    ELSE LET f == Head(files)
             full == full_path(d, f)
             idx1 == dict_set(idx, <<f.name, f.culture>>, full)
             idx2 == IF f.culture # "" THEN dict_set(idx1, <<f.name, "">>, full) ELSE idx1
         IN index_files_fallback_assigned(IF f.readable THEN idx2 ELSE idx, d, Tail(files))

RECURSIVE index_files(_, _, _)
\* the inner loop of _index_managed over the files of one directory; a file whose
\* GetAssemblyName throws is skipped
index_files(idx, d, files) ==
    IF files = <<>> THEN idx
    ELSE LET f == Head(files)
             full == full_path(d, f)
             idx1 == dict_set(idx, <<f.name, f.culture>>, full)
             idx2 == IF f.culture # "" THEN dict_setdefault(idx1, <<f.name, "">>, full) ELSE idx1
         IN index_files(IF f.readable THEN idx2 ELSE idx, d, Tail(files))

RECURSIVE index_dirs(_, _, _)
\* the outer loop of _index_managed; an entry that is not a directory is skipped
index_dirs(idx, search_dirs, dsk) ==
    IF search_dirs = <<>> THEN idx
    ELSE LET d == Head(search_dirs)
         IN index_dirs(IF d \in DOMAIN dsk THEN index_files(idx, d, dsk[d]) ELSE idx,
                       Tail(search_dirs), dsk)

\* _index_managed, its first result (prepare_and_load drops names_by_path)
_index_managed(search_dirs, dsk) == index_dirs(<<>>, search_dirs, dsk)

\* os.path.exists(path) for a path of the index
path_exists(path, dsk) ==
    \E d \in DOMAIN dsk : \E i \in 1..Len(dsk[d]) : full_path(d, dsk[d][i]) = path

\* A plausible slip: the hook without the fallback to the neutral entry.
_resolve_exact_only(cache, req, dsk) ==
    IF Len(req) # 3 THEN None
    ELSE LET path == dict_get(cache, <<req[1], req[2]>>)
         IN IF path # None /\ path_exists(path, dsk) /\ req[3] THEN path ELSE None

\* What a call gives when an exception leaves it.
Raised == "<raised>"

\* The try block of the hook _resolve.  req is <<name, culture, whether LoadFrom
\* succeeds>>, or a one-element tuple for a name AssemblyName cannot parse.  The result is
\* the path the assembly was loaded from, None when the block falls through to the final
\* return, or Raised when assembly_name(...) or LoadFrom throws.
_resolve_try(cache, req, dsk) ==
    IF Len(req) # 3 THEN Raised
    ELSE LET key_c == <<req[1], req[2]>>
             key_n == <<req[1], "">>
             path == IF dict_get(cache, key_c) # None THEN dict_get(cache, key_c)
                     ELSE dict_get(cache, key_n)
         IN IF path # None /\ path_exists(path, dsk)
            THEN (IF req[3] THEN path ELSE Raised)
            ELSE None

\* A plausible slip: the hook without its except clause.
_resolve_uncaught(cache, req, dsk) == _resolve_try(cache, req, dsk)

\* The hook _resolve: the try block, and None for every exception it raises.
_resolve(cache, req, dsk) ==
    LET r == _resolve_try(cache, req, dsk)
    IN IF r = Raised THEN None ELSE r

\* A plausible slip: _install_resolver without the early return.
_install_resolver_unguarded(index) ==
    /\ asm_index' = index /\ prev_index' = asm_index
    /\ handlers' = handlers + 1 /\ _TIAEXP_RESOLVE_INSTALLED' = TRUE

\* A plausible slip: the early return placed before the index is replaced.
_install_resolver_return_first(index) ==
    /\ prev_index' = asm_index
    /\ IF _TIAEXP_RESOLVE_INSTALLED
       THEN UNCHANGED <<asm_index, handlers, _TIAEXP_RESOLVE_INSTALLED>>
       ELSE asm_index' = index /\ handlers' = handlers + 1 /\ _TIAEXP_RESOLVE_INSTALLED' = TRUE

\* _install_resolver: the index replaced, the handler registered unless the flag is set
_install_resolver(index) ==
    /\ asm_index' = index /\ prev_index' = asm_index
    /\ IF _TIAEXP_RESOLVE_INSTALLED
       THEN UNCHANGED <<handlers, _TIAEXP_RESOLVE_INSTALLED>>
       ELSE handlers' = handlers + 1 /\ _TIAEXP_RESOLVE_INSTALLED' = TRUE

\* No prepare_and_load call has returned yet.
NoReport ==
    [search_dirs |-> <<>>, core_path |-> None, version |-> None,
     prefetched |-> <<>>, prefetch_errors |-> <<>>]

\* No ensure_clr_and_load call has returned since the last direct prepare_and_load.
NoResult == [ok |-> FALSE, message |-> ""]

\* add_reference(path), and assembly.LoadFrom(path), return without throwing
loads_ok(path, dsk) == path_exists(path, dsk) /\ path \notin unloadable

RECURSIVE first_in_dirs(_, _, _)
\* the loop of _select_candidate: the first search directory that holds <name>.dll
first_in_dirs(nm, search_dirs, dsk) ==
    IF search_dirs = <<>> THEN None
    ELSE LET maybe == Head(search_dirs) \o "\\" \o nm \o ".dll"
         IN IF path_exists(maybe, dsk) THEN maybe ELSE first_in_dirs(nm, Tail(search_dirs), dsk)

\* _select_candidate: the neutral index entry, else the en-US one, if the file exists;
\* otherwise <name>.dll of the first search directory that has it; otherwise None
_select_candidate(nm, index, search_dirs, dsk) ==
    LET path == IF dict_get(index, <<nm, "">>) # None THEN dict_get(index, <<nm, "">>)
                ELSE dict_get(index, <<nm, "en-US">>)
    IN IF path # None /\ path_exists(path, dsk) THEN path
       ELSE first_in_dirs(nm, search_dirs, dsk)

\* The inner _load of prepare_and_load.  st holds the dicts loaded and failures, the
\* names _load has been called with, and the value the call returned.
_load(st, nm, index, search_dirs, dsk) ==
    LET candidate == _select_candidate(nm, index, search_dirs, dsk)
        called == [st EXCEPT !.attempts = Append(@, nm), !.returned = candidate]
    IN IF candidate = None THEN called
       ELSE IF loads_ok(candidate, dsk)
            THEN [called EXCEPT !.loaded = dict_set(@, nm, candidate)]
            ELSE [called EXCEPT !.failures = dict_set(@, nm, "FileLoadException")]

\* optional_assemblies of prepare_and_load, and _OPTIONAL_ASSEMBLIES of openness_bridge
optional_assemblies ==
    <<"Siemens.Engineering.Contract", "Siemens.Engineering.HW",
      "Siemens.Engineering.HW.Features", "Siemens.Engineering.Hmi",
      "Siemens.Engineering.AddIn">>

RECURSIVE load_each_until_failure(_, _, _, _, _)
\* A plausible slip: the loop gives up at the first module that did not load.
load_each_until_failure(st, names, index, search_dirs, dsk) ==
    IF names = <<>> THEN st
    ELSE LET st1 == _load(st, Head(names), index, search_dirs, dsk)
         IN IF Head(names) \notin DOMAIN st1.loaded THEN st1
            ELSE load_each_until_failure(st1, Tail(names), index, search_dirs, dsk)

RECURSIVE load_each(_, _, _, _, _)
\* _load called for each name in turn: the primary module, then the loop over
\* optional_assemblies
load_each(st, names, index, search_dirs, dsk) ==
    IF names = <<>> THEN st
    ELSE load_each(_load(st, Head(names), index, search_dirs, dsk), Tail(names),
                   index, search_dirs, dsk)

\* The version GetAssemblyName(core_path) reports; every assembly of the model is 17.0.0.0.
core_version_of(core_path, dsk) ==
    IF core_path = None THEN None
    ELSE IF \E d \in DOMAIN dsk : \E i \in 1..Len(dsk[d]) :
                full_path(d, dsk[d][i]) = core_path /\ dsk[d][i].readable
         THEN "17.0.0.0" ELSE None

\* At most MaxLoads calls of prepare_and_load are followed.
MaxLoads == 2

\* on_scan creates at most MaxWorkers workers.
MaxWorkers == 2

\* At most MaxEnvCalls calls of lines 254-255 of prepare_and_load are followed.
MaxEnvCalls == 2

DirPublicAPI == "C:\\TIA\\PublicAPI\\V17"

DirBin == "C:\\TIA\\bin"

DirCulture == "C:\\TIA\\PublicAPI\\V17\\de-DE"

\* A search entry that exists but is no directory.
DirNoDir == "C:\\TIA\\bin64"

SearchNames == {DirPublicAPI, DirBin, DirCulture}

\* The search lists prepare_and_load is followed on: one or two distinct directories in
\* either order, and one list with an entry that is no directory.
SearchLists ==
    {<<a>> : a \in SearchNames}
    \cup {<<ab[1], ab[2]>> : ab \in {x \in SearchNames \X SearchNames : x[1] # x[2]}}
    \cup {<<DirNoDir, DirPublicAPI>>}

Outcomes == {"ok", "clr_missing"}

\* What the platform can do to the resolver: "system_missing", System.AppDomain or
\* ResolveEventHandler cannot be had and _load_system_types raises; "register_fails",
\* the registration with AssemblyResolve throws.
ResolverOutcomes == {"system_missing", "register_fails"}

\* A plausible slip: the exception of the resolver installation is caught and the
\* modules are loaded all the same.
install_raises_swallowed(outcome) == FALSE

\* _install_resolver ends with an exception: line 233 throws
install_raises(outcome) == outcome = "register_fails"

\* the names of the modules whose file the calls of _load passed to add_reference
referenced_of(st) ==
    SelectSeq(st.attempts, LAMBDA nm : nm \in DOMAIN st.loaded \/ nm \in DOMAIN st.failures)

\* prepare_and_load, search_dirs being what _discover_dirs gave.  outcome "clr_missing":
\* pythonnet cannot be imported and the call raises before it indexes anything;
\* "system_missing": line 251 raises.  Otherwise the index is built and handed to
\* _install_resolver, which replaces the index and, with "register_fails", raises at
\* the registration.  Otherwise the primary module and then the optional ones are
\* loaded, and the report is returned (path_head, which no load decides, is left out).
\* The import_module ping changes nothing of the report.
prepare_and_load(search_dirs, outcome) ==
    /\ Len(loads) < MaxLoads
    /\ loads' = Append(loads, outcome)
    /\ IF outcome \in {"clr_missing", "system_missing"}
       THEN /\ call_log' = Append(call_log, [raised |-> TRUE, referenced |-> <<>>])
            /\ UNCHANGED <<built, asm_index, prev_index, handlers, _TIAEXP_RESOLVE_INSTALLED,
                           report, attempts>>
       ELSE LET index == _index_managed(search_dirs, disk)
                empty == [loaded |-> <<>>, failures |-> <<>>, attempts |-> <<>>,
                          returned |-> None]
                core == _load(empty, "Siemens.Engineering", index, search_dirs, disk)
                st == load_each(core, optional_assemblies, index, search_dirs, disk)
            IN /\ built' = [search_dirs |-> search_dirs, disk |-> disk, index |-> index]
               /\ IF install_raises(outcome)
                  THEN /\ asm_index' = index /\ prev_index' = asm_index
                       /\ call_log' = Append(call_log, [raised |-> TRUE, referenced |-> <<>>])
                       /\ UNCHANGED <<handlers, _TIAEXP_RESOLVE_INSTALLED, report, attempts>>
                  ELSE /\ _install_resolver(index)
                       /\ attempts' = st.attempts
                       /\ call_log' = Append(call_log, [raised |-> FALSE,
                                                         referenced |-> referenced_of(st)])
                       /\ report' = [search_dirs |-> search_dirs,
                                     core_path |-> core.returned,
                                     version |-> core_version_of(core.returned, disk),
                                     prefetched |-> st.loaded,
                                     prefetch_errors |-> st.failures]
    /\ request' = <<>> /\ answer' = None
    /\ UNCHANGED <<fs, hmiVars, genVars, moreVars, workerVars, disk, unloadable, scanVars, validateVars,
                   wizardVars>>

\* prepare_and_load called on its own (app_boot, app, main_window).
PrepareAndLoad ==
    /\ \E search_dirs \in SearchLists, outcome \in Outcomes : prepare_and_load(search_dirs, outcome)
    /\ ensure_dll' = None /\ clr_result' = NoResult

\* prepare_and_load called on a platform that denies the resolver.  System types once
\* loaded stay loaded (_SYSTEM_TYPES), and only a process without the handler registers.
PrepareAndLoadNoResolver ==
    /\ \E search_dirs \in SearchLists, outcome \in ResolverOutcomes :
          /\ outcome = "system_missing" =>
                \A i \in 1..Len(loads) : loads[i] \notin {"ok", "register_fails"}
          /\ outcome = "register_fails" => ~_TIAEXP_RESOLVE_INSTALLED
          /\ prepare_and_load(search_dirs, outcome)
    /\ ensure_dll' = None /\ clr_result' = NoResult

(***************************************************************************)
(* openness_bridge.py: ensure_clr_and_load                                 *)
(***************************************************************************)

\* ClrLoadResult(ok, message); token and version, which no branch tests, are left out
ClrLoadResult(ok, message) == [ok |-> ok, message |-> message]

\* engineering_dll.parent, for the primary file of a directory
parent_of(dll) == SubSeq(dll, 1, Len(dll) - Len("\\Siemens.Engineering.dll"))

\* dll_dir / f"{name}.dll"
dll_in(dll_dir, nm) == dll_dir \o "\\" \o nm \o ".dll"

\* _try_reflect: LoadFrom(engineering_dll) decides the result
_try_reflect(dll, success_message, dsk) ==
    IF loads_ok(dll, dsk) THEN ClrLoadResult(TRUE, success_message)
    ELSE ClrLoadResult(FALSE, "Reflection load failed")

\* _needs_multi: some optional assembly has no file in dll_dir
_needs_multi(dll_dir, dsk) ==
    \E i \in 1..Len(optional_assemblies) : ~path_exists(dll_in(dll_dir, optional_assemblies[i]), dsk)

\* _load_optional_from_dir: the names whose file in dll_dir exists and loads
_load_optional_from_dir(dll_dir, dsk) ==
    {optional_assemblies[i] : i \in {k \in 1..Len(optional_assemblies) :
                                         loads_ok(dll_in(dll_dir, optional_assemblies[k]), dsk)}}

\* A plausible slip: the errors of the optional assemblies are not counted.
_load_multi_folder_primary_only(diag, dll, dsk) ==
    IF "Siemens.Engineering" \in DOMAIN diag.prefetch_errors
    THEN ClrLoadResult(FALSE, "Multi-folder loader reported errors")
    ELSE _try_reflect(dll, "Loaded Siemens.Engineering (multi-folder)", dsk)

\* _load_multi_folder once prepare_and_load has returned diag
_load_multi_folder(diag, dll, dsk) ==
    LET relevant ==
            {k \in DOMAIN diag.prefetch_errors :
                k = "Siemens.Engineering"
                \/ \E i \in 1..Len(optional_assemblies) : k = optional_assemblies[i]}
    IN IF relevant # {} THEN ClrLoadResult(FALSE, "Multi-folder loader reported errors")
       ELSE _try_reflect(dll, "Loaded Siemens.Engineering (multi-folder)", dsk)

\* _load_direct
_load_direct(dll, message, dsk) ==
    IF ~loads_ok(dll, dsk) THEN ClrLoadResult(FALSE, "AddReference failed")
    ELSE _try_reflect(dll, message, dsk)

\* lines 115-135 of ensure_clr_and_load, diag being what prepare_and_load returned
clr_load_flow(diag, dll_dir, dsk) ==
    LET dll == dll_in(dll_dir, "Siemens.Engineering")
        requires_multi == _needs_multi(dll_dir, dsk)
        multi_attempt == _load_multi_folder(diag, dll, dsk)
        direct == _load_direct(dll, "Loaded Siemens.Engineering (direct fallback)", dsk)
        loaded_optional == _load_optional_from_dir(dll_dir, dsk)
        missing == {optional_assemblies[i] : i \in {k \in 1..Len(optional_assemblies) :
                        /\ path_exists(dll_in(dll_dir, optional_assemblies[k]), dsk)
                        /\ optional_assemblies[k] \notin loaded_optional}}
    IN IF multi_attempt.ok THEN multi_attempt
       ELSE IF requires_multi THEN ClrLoadResult(FALSE, multi_attempt.message)
       ELSE IF direct.ok
            THEN (IF missing # {} THEN ClrLoadResult(FALSE, "Failed to load dependent assemblies")
                  ELSE ClrLoadResult(TRUE, direct.message))
            ELSE ClrLoadResult(FALSE, "direct fallback failed")

\* ensure_clr_and_load(engineering_dll) for the primary file of dll_dir.  clr
\* "clr_missing": pythonnet cannot be imported and the call returns at once.  Otherwise
\* prepare_and_load(dll_dir) runs (search_dirs being what _discover_dirs gave, dll_dir
\* first) and the result follows from its report.
ensure_clr_and_load(dll_dir, search_dirs, clr) ==
    /\ ensure_dll' = dll_in(dll_dir, "Siemens.Engineering")
    /\ IF clr = "clr_missing"
       THEN /\ clr_result' = ClrLoadResult(FALSE, "pythonnet is not available")
            /\ clr_result' # clr_result
            /\ UNCHANGED <<fs, restVars, workerVars, disk, _TIAEXP_RESOLVE_INSTALLED, asm_index, handlers, loads,
                           built, request, answer, prev_index, unloadable, report, attempts,
                           scanVars, validateVars, wizardVars>>
       ELSE /\ prepare_and_load(search_dirs, "ok")
            /\ clr_result' = clr_load_flow(report', dll_dir, disk)

EnsureClrAndLoad ==
    \E dll_dir \in {DirPublicAPI, DirBin}, clr \in Outcomes :
        \E search_dirs \in {s \in SearchLists : Head(s) = dll_dir} :
            ensure_clr_and_load(dll_dir, search_dirs, clr)

AssemblyNames == {"Siemens.Engineering", "Siemens.Engineering.resources"}

Requests ==
    {<<n, c, ok>> : n \in AssemblyNames, c \in {"", "de-DE"}, ok \in BOOLEAN} \cup {<<"?">>}

\* The runtime raises AssemblyResolve and the registered hook answers.
ResolveRequest ==
    /\ handlers > 0
    /\ \E req \in Requests :
          /\ request' = req
          /\ answer' = _resolve(asm_index, req, disk)
    /\ UNCHANGED <<fs, restVars, workerVars, disk, _TIAEXP_RESOLVE_INSTALLED, asm_index, handlers, loads, built,
                   prev_index, unloadable, report, attempts, ensure_dll, clr_result,
                   scanVars, validateVars, wizardVars>>

\* A file of a directory is removed while the process runs.
DeleteFile ==
    /\ \E d \in DOMAIN disk : \E i \in 1..Len(disk[d]) :
          disk' = [disk EXCEPT ![d] = SubSeq(disk[d], 1, i - 1) \o SubSeq(disk[d], i + 1, Len(disk[d]))]
    /\ request' = <<>> /\ answer' = None
    /\ UNCHANGED <<fs, restVars, workerVars, _TIAEXP_RESOLVE_INSTALLED, asm_index, handlers, loads, built,
                   prev_index, unloadable, report, attempts, ensure_dll, clr_result,
                   scanVars, validateVars, wizardVars>>

(***************************************************************************)
(* gui/wizard.py: DiscoveryWorker.run, on_abort and the delivery of found  *)
(***************************************************************************)

\* The worker thread: the generator yields the next candidate and _record_found keeps
\* the resolved paths of its files, or the generator is exhausted and the loop ends.
run_next ==
    /\ wk = "next"
    /\ IF to_scan = <<>>
       THEN wk' = "finally" /\ UNCHANGED <<to_scan, cur, found_global>>
       ELSE LET c == Head(to_scan)
                mapping == <<<<REQUIRED_DLLS[1], c.engineering_dll>>,
                             <<REQUIRED_DLLS[2], c.hmi_dll>>,
                             <<REQUIRED_DLLS[3], c.addin_dll>>>>
            IN /\ cur' = c /\ to_scan' = Tail(to_scan)
               /\ found_global' = found_global \cup
                      {<<mapping[i][1], resolve(mapping[i][2])>> :
                          i \in {k \in 1..3 : mapping[k][2] # NoPath}}
               /\ wk' = "check"
    /\ UNCHANGED <<fs, restVars, _abort, queue, emitted, table, candidates, gui, emitted_at_abort,
                   wk_at_abort, table_at_abort, scanVars, validateVars, wizardVars, loaderVars>>

\* A plausible slip: the loop never tests the flag.
run_check_ignoring_abort ==
    /\ wk = "check"
    /\ wk' = "emit"
    /\ UNCHANGED <<fs, restVars, _abort, to_scan, cur, found_global, queue, emitted, table, candidates,
                   gui, emitted_at_abort, wk_at_abort, table_at_abort, scanVars, validateVars,
                   wizardVars, loaderVars>>

\* The worker thread: if self._abort: break
run_check ==
    /\ wk = "check"
    /\ wk' = IF _abort THEN "finally" ELSE "emit"
    /\ UNCHANGED <<fs, restVars, _abort, to_scan, cur, found_global, queue, emitted, table, candidates,
                   gui, emitted_at_abort, wk_at_abort, table_at_abort, scanVars, validateVars,
                   wizardVars, loaderVars>>

\* The worker thread: progress.emit (connected to a slot that does nothing) and
\* found.emit(cand), which queues the call of on_found for the GUI thread.
run_emit ==
    /\ wk = "emit"
    /\ queue' = Append(queue, [sig |-> "found", cand |-> <<cur>>])
    /\ emitted' = Append(emitted, cur.folder)
    /\ wk' = "next"
    /\ UNCHANGED <<fs, restVars, _abort, to_scan, cur, found_global, table, candidates, gui,
                   emitted_at_abort, wk_at_abort, table_at_abort, scanVars, validateVars,
                   wizardVars, loaderVars>>

\* The worker thread: finally: self.finished.emit()
run_finally ==
    /\ wk = "finally"
    /\ queue' = Append(queue, [sig |-> "finished", cand |-> <<>>])
    /\ wk' = "done"
    /\ UNCHANGED <<fs, restVars, _abort, to_scan, cur, found_global, emitted, table, candidates, gui,
                   emitted_at_abort, wk_at_abort, table_at_abort, scanVars, validateVars,
                   wizardVars, loaderVars>>

\* The GUI thread, on_abort up to its blocking call: worker.abort() sets the flag and
\* worker.wait(2000) begins.
on_abort ==
    /\ gui = "idle" /\ wk # "idle" /\ ~_abort
    /\ _abort' = TRUE
    /\ gui' = "waiting"
    /\ emitted_at_abort' = Len(emitted) /\ wk_at_abort' = wk /\ table_at_abort' = table
    /\ UNCHANGED <<fs, restVars, wk, to_scan, cur, found_global, queue, emitted, table, candidates,
                   scanVars, validateVars, wizardVars, loaderVars>>

\* The GUI thread: worker.wait(2000) returns, because the thread has ended or the two
\* seconds are over, and on_abort returns to the event loop.
on_abort_return ==
    /\ gui = "waiting"
    /\ gui' = "idle"
    /\ UNCHANGED <<fs, restVars, _abort, wk, to_scan, cur, found_global, queue, emitted, table,
                   candidates, emitted_at_abort, wk_at_abort, table_at_abort, scanVars,
                   validateVars, wizardVars, loaderVars>>

\* The GUI thread delivers the oldest queued found signal: on_found(cand) on a machine
\* without pythonnet, where ensure_clr_and_load returns not ok at once.  The row is
\* inserted; for a valid candidate line 339 then reads cand.note, which Candidate does
\* not have, and the AttributeError leaves the slot before either list is appended to.
on_found ==
    /\ gui = "idle" /\ queue # <<>> /\ Head(queue).sig = "found"
    /\ LET c == Head(queue).cand[1]
       IN /\ table' = Append(table, c.folder)
          /\ IF c.is_valid
             THEN /\ ensure_dll' = str(c.engineering_dll)
                  /\ clr_result' = ClrLoadResult(FALSE, "pythonnet is not available")
                  /\ UNCHANGED candidates
             ELSE /\ candidates' = Append(candidates, [c EXCEPT !.token = ""])
                  /\ UNCHANGED <<ensure_dll, clr_result>>
    /\ queue' = Tail(queue)
    /\ UNCHANGED <<fs, restVars, _abort, wk, to_scan, cur, found_global, emitted, gui, emitted_at_abort,
                   wk_at_abort, table_at_abort, disk, _TIAEXP_RESOLVE_INSTALLED, asm_index,
                   handlers, loads, built, request, answer, prev_index, unloadable, report,
                   attempts, scanVars, validateVars, wizardVars>>

\* The worker thread inside next() of the for loop of run: discover_candidates runs on
\* to its next yield or to its end.  Nothing in it reads the worker's flag.
gen_step ==
    /\ wk = "next"
    /\ Len(yielded) = taken
    /\ (TryGuess \/ StartWalk \/ NextDrive \/ NextRoot \/ WalkStep \/ Finish)

\* The worker thread: the generator has yielded, the loop body starts with _record_found.
take_candidate ==
    /\ wk = "next"
    /\ Len(yielded) > taken
    /\ LET c == yielded[taken + 1]
           mapping == <<<<REQUIRED_DLLS[1], c.engineering_dll>>,
                        <<REQUIRED_DLLS[2], c.hmi_dll>>,
                        <<REQUIRED_DLLS[3], c.addin_dll>>>>
       IN /\ cur' = c
          /\ found_global' = found_global \cup
                 {<<mapping[i][1], resolve(mapping[i][2])>> :
                     i \in {k \in 1..3 : mapping[k][2] # NoPath}}
    /\ taken' = taken + 1
    /\ wk' = "check"
    /\ UNCHANGED <<fs, hmiVars, logVars, moreVars, _abort, to_scan, queue, emitted, table, candidates, gui,
                   emitted_at_abort, wk_at_abort, table_at_abort, scanVars, validateVars,
                   wizardVars, loaderVars>>

\* The worker thread: the generator is exhausted and the for loop ends.
loop_end ==
    /\ wk = "next"
    /\ pc = "done" /\ Len(yielded) = taken
    /\ wk' = "finally"
    /\ UNCHANGED <<fs, restVars, _abort, to_scan, cur, found_global, queue, emitted, table,
                   candidates, gui, emitted_at_abort, wk_at_abort, table_at_abort, scanVars,
                   validateVars, wizardVars, loaderVars>>

(***************************************************************************)
(* gui/wizard.py: on_scan while a worker runs                              *)
(***************************************************************************)
\* self.found_dlls as on_scan resets it
NoDlls == [n \in {REQUIRED_DLLS[i] : i \in 1..Len(REQUIRED_DLLS)} |-> <<>>]

\* What the steps of the workers and of the slots leave alone.
outsideRescan ==
    <<fs, hmiVars, genVars, logVars, envVars, rootsVars, scanVars, validateVars, workerVars>>

\* on_scan, lines 211-227: the lists and the table are cleared and a new worker is
\* created, connected and started.
clear_and_start ==
    /\ self_candidates' = <<>> /\ rows' = <<>>
    /\ valid_candidates' = <<>> /\ found_dlls' = NoDlls
    /\ _profile_saved' = FALSE
    /\ busy' = TRUE
    /\ started' = started + 1
    /\ worker' = started + 1
    /\ at' = [at EXCEPT ![started + 1] = "next"]
    /\ gui_at' = "idle"

\* The GUI thread, on_scan (drives are selected).  With a worker referenced it sets the
\* worker's flag and blocks in worker.wait(100); with none it runs to its end.
on_scan ==
    /\ gui_at = "idle" /\ started < MaxWorkers
    /\ IF worker # 0
       THEN /\ flags' = [flags EXCEPT ![worker] = TRUE]
            /\ gui_at' = "waiting"
            /\ UNCHANGED <<worker, started, at, self_candidates, rows, busy, valid_candidates, found_dlls,
                           _profile_saved>>
       ELSE clear_and_start /\ UNCHANGED flags
    /\ UNCHANGED <<outsideRescan, loaderVars, todo, cand_of, founds, events, finished_log, wpc,
                   ranked, saved_profile, user_selected, multi, summary>>

\* The GUI thread: worker.wait(100) returns, the thread having ended or the 100 ms
\* being over, and on_scan goes on from line 215.
on_scan_resume ==
    /\ gui_at = "waiting"
    /\ clear_and_start
    /\ UNCHANGED <<outsideRescan, loaderVars, flags, todo, cand_of, founds, events, finished_log,
                   wpc, ranked, saved_profile, user_selected, multi, summary>>

\* A worker thread: the generator yields the next candidate and _record_found keeps the
\* resolved paths of its files, or the generator is exhausted and the loop ends.
worker_next(w) ==
    /\ at[w] = "next"
    /\ IF todo[w] = <<>>
       THEN at' = [at EXCEPT ![w] = "finally"] /\ UNCHANGED <<todo, cand_of, founds>>
       ELSE LET c == Head(todo[w])
                mapping == <<<<REQUIRED_DLLS[1], c.engineering_dll>>,
                             <<REQUIRED_DLLS[2], c.hmi_dll>>,
                             <<REQUIRED_DLLS[3], c.addin_dll>>>>
            IN /\ cand_of' = [cand_of EXCEPT ![w] = c]
               /\ todo' = [todo EXCEPT ![w] = Tail(todo[w])]
               /\ founds' = [founds EXCEPT ![w] = founds[w] \cup
                      {<<mapping[i][1], resolve(mapping[i][2])>> :
                          i \in {k \in 1..3 : mapping[k][2] # NoPath}}]
               /\ at' = [at EXCEPT ![w] = "check"]
    /\ UNCHANGED <<outsideRescan, loaderVars, wizardVars, worker, started, flags, events, rows,
                   self_candidates, busy, gui_at, finished_log>>

\* A worker thread: if self._abort: break
worker_check(w) ==
    /\ at[w] = "check"
    /\ at' = [at EXCEPT ![w] = IF flags[w] THEN "finally" ELSE "emit"]
    /\ UNCHANGED <<outsideRescan, loaderVars, wizardVars, worker, started, flags, todo, cand_of,
                   founds, events, rows, self_candidates, busy, gui_at, finished_log>>

\* A worker thread: found.emit(cand) queues the call of on_found for the GUI thread.
worker_emit(w) ==
    /\ at[w] = "emit"
    /\ events' = Append(events, [sig |-> "found", cand |-> <<cand_of[w]>>, sender |-> w])
    /\ at' = [at EXCEPT ![w] = "next"]
    /\ UNCHANGED <<outsideRescan, loaderVars, wizardVars, worker, started, flags, todo, cand_of,
                   founds, rows, self_candidates, busy, gui_at, finished_log>>

\* A worker thread: finally: self.finished.emit()
worker_finally(w) ==
    /\ at[w] = "finally"
    /\ events' = Append(events, [sig |-> "finished", cand |-> <<>>, sender |-> w])
    /\ at' = [at EXCEPT ![w] = "done"]
    /\ UNCHANGED <<outsideRescan, loaderVars, wizardVars, worker, started, flags, todo, cand_of,
                   founds, rows, self_candidates, busy, gui_at, finished_log>>

\* The GUI thread delivers the oldest queued found signal, of whichever worker, to
\* on_found (as in on_found above: the row is inserted, and a valid candidate ends the
\* slot at line 339 before either list is appended to).
slot_on_found ==
    /\ gui_at = "idle" /\ events # <<>> /\ Head(events).sig = "found"
    /\ LET c == Head(events).cand[1]
       IN /\ rows' = Append(rows, [folder |-> c.folder, sender |-> Head(events).sender])
          /\ IF c.is_valid
             THEN /\ ensure_dll' = str(c.engineering_dll)
                  /\ clr_result' = ClrLoadResult(FALSE, "pythonnet is not available")
                  /\ UNCHANGED self_candidates
             ELSE /\ self_candidates' = Append(self_candidates, [cand |-> [c EXCEPT !.token = ""],
                                             sender |-> Head(events).sender])
                  /\ UNCHANGED <<ensure_dll, clr_result>>
    /\ events' = Tail(events)
    /\ UNCHANGED <<outsideRescan, wizardVars, worker, started, flags, at, todo, cand_of, founds,
                   busy, gui_at, finished_log, disk, _TIAEXP_RESOLVE_INSTALLED, asm_index,
                   handlers, loads, built, request, answer, prev_index, unloadable, report,
                   attempts>>

\* The GUI thread delivers the oldest queued finished signal, of whichever worker, to
\* on_finished: found_dlls is read from the worker self.worker refers to now, the
\* reference is cleared, and the rest runs as in on_finished above.
slot_on_finished ==
    /\ gui_at = "idle" /\ events # <<>> /\ Head(events).sig = "finished"
    /\ busy' = FALSE
    /\ found_dlls' =
          IF worker # 0
          THEN [n \in {REQUIRED_DLLS[i] : i \in 1..Len(REQUIRED_DLLS)} |->
                   sorted_paths({e[2] : e \in {x \in founds[worker] : x[1] = n}})]
          ELSE NoDlls
    /\ worker' = 0
    /\ finished_log' = Append(finished_log,
                              [sender |-> Head(events).sender, referred |-> worker,
                               referred_at |-> IF worker # 0 THEN at[worker] ELSE "none"])
    /\ IF no_valid(valid_candidates)
       THEN /\ multi' = _build_multidir_candidate(found_dlls')
            /\ IF multi'.outcome = "none"
               THEN /\ summary' = missing_header(found_dlls')
                    /\ _profile_saved' = FALSE
               ELSE UNCHANGED <<summary, _profile_saved>>
            /\ UNCHANGED <<ranked, saved_profile>>
       ELSE LET rk == sorted_reverse(valid_candidates)
            IN /\ ranked' = rk
               /\ IF unambiguous_best(rk)
                  THEN saved_profile' = rk[1].folder /\ _profile_saved' = TRUE
                  ELSE UNCHANGED <<saved_profile, _profile_saved>>
               /\ UNCHANGED <<multi, summary>>
    /\ events' = Tail(events)
    /\ UNCHANGED <<outsideRescan, loaderVars, started, flags, at, todo, cand_of, founds, rows,
                   self_candidates, gui_at, valid_candidates, wpc, user_selected>>

(***************************************************************************)
(* loader_multi.py: the search directories and the process search path     *)
(***************************************************************************)
_CULTURES ==
    <<"en-US", "de-DE", "fr-FR", "es-ES", "it-IT", "pt-BR", "ru-RU", "pl-PL",
      "cs-CZ", "zh-CN", "ja-JP", "tr-TR", "ko-KR">>

NotDerived == <<"not derived">>

\* str.split(sep) for a one-character separator: the pieces between the separators
split(s, sep) ==
    LET cuts == {i \in 1..Len(s) : CharAt(s, i) = sep}
        cut(k) == CHOOSE c \in cuts : Cardinality({x \in cuts : x < c}) = k - 1
    IN [k \in 1..(Cardinality(cuts) + 1) |->
           SubSeq(s, IF k = 1 THEN 1 ELSE cut(k - 1) + 1,
                     IF k = Cardinality(cuts) + 1 THEN Len(s) ELSE cut(k) - 1)]

\* Path(d) for the text of an absolute Windows path: the anchor, then the components
PathOf(d) ==
    LET pieces == SelectSeq(split(d, "\\"), LAMBDA piece : piece # "")
    IN <<Head(pieces) \o "\\">> \o Tail(pieces)

\* A loop that appends every existing entry, whatever was appended before.
_dedupe_dirs_unseen(cands) ==
    LET kept == SelectSeq(cands, LAMBDA d : d # "" /\ exists(PathOf(d)))
    IN [k \in 1..Len(kept) |-> str(resolve(PathOf(kept[k])))]

\* The loop of lines 79-91: an entry is skipped when it is empty or does not exist, and
\* when the key of an earlier entry that was not skipped is its own.
_dedupe_dirs(cands) ==
    LET resolved == [i \in 1..Len(cands) |->
                        IF cands[i] # "" /\ exists(PathOf(cands[i]))
                        THEN str(resolve(PathOf(cands[i]))) ELSE ""]
        key == [i \in 1..Len(cands) |-> lower(resolved[i])]
        appended == SelectSeq([i \in 1..Len(cands) |-> i],
                              LAMBDA i : /\ resolved[i] # ""
                                         /\ \A j \in 1..(i - 1) : key[j] # key[i])
    IN [k \in 1..Len(appended) |-> resolved[appended[k]]]

_default_public_api_v17 ==
    <<"C:\\", "Program Files", "Siemens", "Automation", "Portal V17", "PublicAPI", "V17">>

\* lines 101-105
public_dir_of(arg) ==
    LET pad == IF arg # NoPath THEN arg ELSE _default_public_api_v17
    IN IF is_dir(pad) THEN pad ELSE parent(pad)

public_root_of(arg) == parent(public_dir_of(arg))

portal_root_of(arg) == parent(public_root_of(arg))

\* lines 117-128: the nested public-API folders of bin and bin64
nested_public_api(arg) ==
    LET version_name == name(public_dir_of(arg))
        bin_public_api == Div(Div(portal_root_of(arg), "bin"), "PublicAPI")
        bin64_public_api == Div(Div(portal_root_of(arg), "bin64"), "PublicAPI")
    IN <<bin_public_api, Div(bin_public_api, version_name),
         bin64_public_api, Div(bin64_public_api, version_name)>>

RECURSIVE with_versioned(_, _)
with_versioned(siblings, version_name) ==
    IF siblings = <<>> THEN <<>>
    ELSE <<Head(siblings), Div(Head(siblings), version_name)>>
             \o with_versioned(Tail(siblings), version_name)

\* lines 130-143: the listing fails as a whole when public_root is no directory
sibling_public_api(arg) ==
    LET public_dir == public_dir_of(arg)
        public_root == public_root_of(arg)
        listed == IF is_dir(public_root)
                  THEN [i \in 1..Len(dirnames(public_root)) |->
                            Div(public_root, dirnames(public_root)[i])]
                  ELSE <<>>
        kept == SelectSeq(listed, LAMBDA sibling :
                    /\ sibling # public_dir
                    /\ is_dir(sibling)
                    /\ contains(lower(name(sibling)), "publicapi"))
    IN with_versioned(kept, name(public_dir))

\* lines 145-153
culture_roots(arg) ==
    <<public_dir_of(arg), public_root_of(arg)>> \o nested_public_api(arg)
        \o sibling_public_api(arg)

RECURSIVE with_cultures(_)
with_cultures(bases) ==
    IF bases = <<>> THEN <<>>
    ELSE [i \in 1..Len(_CULTURES) |-> Div(Head(bases), _CULTURES[i])]
             \o with_cultures(Tail(bases))

\* the list before the culture folders are appended (lines 108-143)
candidates_before_cultures(arg) ==
    <<public_dir_of(arg), public_root_of(arg), portal_root_of(arg),
      Div(portal_root_of(arg), "bin"), Div(portal_root_of(arg), "bin64")>>
        \o nested_public_api(arg) \o sibling_public_api(arg)

derivation(arg) == candidates_before_cultures(arg) \o with_cultures(culture_roots(arg))

_discover_dirs(arg) ==
    _dedupe_dirs([i \in 1..Len(derivation(arg)) |-> str(derivation(arg)[i])])

\* str.strip() leaves nothing: the entry is empty or blank
is_blank(p) == \A i \in 1..Len(p) : CharAt(p, i) \in {" ", "\t"}

\* p.lower().rstrip("\\/")
RECURSIVE rstrip_seps(_)
rstrip_seps(s) ==
    IF s # "" /\ CharAt(s, Len(s)) \in {"\\", "/"} THEN rstrip_seps(SubSeq(s, 1, Len(s) - 1))
    ELSE s

_norm(s) == rstrip_seps(lower(s))

conflict_suffix == "\\software installs\\bin"

\* lines 164-171
cleaned_parts(cur_path) ==
    SelectSeq(split(cur_path, ";"),
              LAMBDA p : ~is_blank(p) /\ ~endswith(_norm(p), conflict_suffix))

\* the value _prepare_env leaves in os.environ["Path"]
_prepare_env(cur_path, dirs) ==
    LET parts == cleaned_parts(cur_path)
        existing == {_norm(parts[i]) : i \in 1..Len(parts)}
        prepend == SelectSeq(dirs, LAMBDA d : _norm(d) \notin existing)
    IN join(";", prepend \o parts)

\* prepare_and_load, lines 254-255
DiscoverAndPrepare ==
    /\ env_calls < MaxEnvCalls
    /\ derived' = _discover_dirs(public_api_dir)
    /\ prev_Path' = Path
    /\ Path' = _prepare_env(Path, derived')
    /\ env_calls' = env_calls + 1
    /\ UNCHANGED <<fs, hmiVars, genVars, logVars, rescanVars, rootsVars, public_api_dir, scanVars,
                   validateVars, wizardVars, loaderVars, workerVars>>

(***************************************************************************)
(* hmi_exporter.py: HmiExporter.export_targets and _export_bundle          *)
(***************************************************************************)

\* The characters the pattern [^A-Za-z0-9_.-] of _sanitize_filename does not match.
SafeChars ==
    LET s == "ABCDEFGHIJKLMNOPQRSTUVWXYZabcdefghijklmnopqrstuvwxyz0123456789_.-"
    IN {CharAt(s, i) : i \in 1..Len(s)}

RECURSIVE sub_unsafe_runs(_, _)
\* re.sub(r"[^A-Za-z0-9_.-]+", "_", s); in_run: the character before was replaced
sub_unsafe_runs(s, in_run) ==
    IF s = "" THEN ""
    ELSE IF CharAt(s, 1) \in SafeChars
         THEN CharAt(s, 1) \o sub_unsafe_runs(SubSeq(s, 2, Len(s)), FALSE)
         ELSE (IF in_run THEN "" ELSE "_") \o sub_unsafe_runs(SubSeq(s, 2, Len(s)), TRUE)

RECURSIVE strip(_, _)
\* str.strip(chars)
strip(s, chars) ==
    IF s # "" /\ CharAt(s, 1) \in chars THEN strip(SubSeq(s, 2, Len(s)), chars)
    ELSE IF s # "" /\ CharAt(s, Len(s)) \in chars THEN strip(SubSeq(s, 1, Len(s) - 1), chars)
    ELSE s

\* _sanitize_filename
_sanitize_filename(nm) ==
    IF nm = "" THEN "tia-hmi"
    ELSE LET cleaned == strip(sub_unsafe_runs(nm, FALSE), {".", "_"})
         IN IF cleaned # "" THEN cleaned ELSE "tia-hmi"

\* HmiTargetInfo
HmiTargetInfo(device_name, software_name, identifier) ==
    [device_name |-> device_name, software_name |-> software_name, identifier |-> identifier]

\* HmiExportResult(target=info)
HmiExportResult(target) ==
    [target |-> target, text_list_path |-> NoPath, screen_path |-> NoPath,
     alarm_path |-> NoPath, recipe_path |-> NoPath]

\* the list exports of _export_bundle: (attribute, stem)
exports ==
    <<<<"TextListFolder", "text_lists">>, <<"ScreenFolder", "screens">>,
      <<"AlarmClasses", "alarms">>, <<"RecipeManagement", "recipes">>>>

\* the field of HmiExportResult a stem is stored in (lines 218-225)
field_of(stem) ==
    CASE stem = "text_lists" -> "text_list_path"
      [] stem = "screens" -> "screen_path"
      [] stem = "alarms" -> "alarm_path"
      [] stem = "recipes" -> "recipe_path"

\* _is_hmi_software, on the FullName of the software's type ("" when GetType fails)
_is_hmi_software(software) ==
    IF software.FullName = "" THEN FALSE
    ELSE contains(software.FullName, ".Hmi") \/ endswith(software.FullName, "HmiTarget")

\* _make_target_identifier for a software that is not None
_make_target_identifier(device_name, software) ==
    LET base == IF software.Name # "" THEN device_name \o "::" \o software.Name
                ELSE device_name
    IN IF software.FullName # "" THEN base \o "::" \o software.FullName ELSE base

RECURSIVE device_items(_)
\* the (device name, device item) pairs in the order the loops over devices and their
\* DeviceItems visit them
device_items(devices) ==
    IF devices = <<>> THEN <<>>
    ELSE [k \in 1..Len(Head(devices).DeviceItems) |->
             [device_name |-> Head(devices).Name, item |-> Head(devices).DeviceItems[k]]]
         \o device_items(Tail(devices))

\* the tests of lines 113-123 (and 64-74): the item gives an HMI software
gives_hmi(item) == item.service = "ok" /\ _is_hmi_software(item.software)

\* list_targets
list_targets(devices) ==
    LET its == SelectSeq(device_items(devices), LAMBDA e : gives_hmi(e.item))
    IN [k \in 1..Len(its) |->
           HmiTargetInfo(its[k].device_name,
                         IF its[k].item.software.Name # "" THEN its[k].item.software.Name
                         ELSE its[k].device_name,
                         _make_target_identifier(its[k].device_name, its[k].item.software))]

NoFilter == {None}

NotReturned == <<"not returned">>

\* lines 90-92: the targets the filter keeps
filtered(tgts, tfilter) ==
    IF tfilter # NoFilter /\ tfilter # {}
    THEN LET accepted == {lower(ident) : ident \in tfilter}
         IN SelectSeq(tgts, LAMBDA tg : lower(tg.identifier) \in accepted)
    ELSE tgts

\* The directory export_targets is given.
OutDir == <<"C:\\", "out">>

\* export_targets up to the loops (lines 86-106)
export_targets ==
    /\ hpc = "start"
    /\ targets' = filtered(list_targets(project), target_filter)
    /\ IF targets' = <<>>
       THEN hpc' = "done" /\ returned' = <<>>
       ELSE hpc' = "items" /\ UNCHANGED returned
    /\ hi' = 1 /\ area_i' = 1 /\ results' = <<>>
    /\ UNCHANGED <<fs, genVars, logVars, moreVars, project, target_filter, scanVars, validateVars, wizardVars,
                   loaderVars, workerVars>>

\* seen.get(identifier): the position in results of the result of an identifier, 0 for None
seen_get(res, identifier) ==
    IF \E k \in 1..Len(res) : res[k].target.identifier = identifier
    THEN CHOOSE k \in 1..Len(res) : res[k].target.identifier = identifier
    ELSE 0

\* targets_by_identifier.get(identifier): the last target of the identifier, 0 for None
targets_by_identifier_get(tgts, identifier) ==
    LET ks == {k \in 1..Len(tgts) : tgts[k].identifier = identifier}
    IN IF ks = {} THEN 0 ELSE CHOOSE k \in ks : \A j \in ks : j <= k

\* one iteration of the loop over the device items (lines 112-135) up to the call of
\* _export_bundle
visit_item ==
    /\ hpc = "items"
    /\ hi <= Len(device_items(project))
    /\ LET e == device_items(project)[hi]
           identifier == _make_target_identifier(e.device_name, e.item.software)
           info == targets_by_identifier_get(targets, identifier)
       IN IF gives_hmi(e.item) /\ info # 0
          THEN /\ results' = IF seen_get(results, identifier) = 0
                             THEN Append(results, HmiExportResult(targets[info]))
                             ELSE results
               /\ hpc' = "bundle" /\ area_i' = 1
               /\ UNCHANGED hi
          ELSE /\ hi' = hi + 1
               /\ UNCHANGED <<hpc, area_i, results>>
    /\ UNCHANGED <<fs, genVars, logVars, moreVars, project, target_filter, targets, returned, scanVars,
                   validateVars, wizardVars, loaderVars, workerVars>>

\* A plausible slip: break where _export_bundle has continue after a failed export.
after_failure_break(k) == Len(exports) + 1

\* line 217: continue, the next entry of exports
after_failure(k) == k + 1

\* one iteration of the loop of _export_bundle (lines 203-229) for the current item
export_area ==
    /\ hpc = "bundle"
    /\ LET e == device_items(project)[hi]
           identifier == _make_target_identifier(e.device_name, e.item.software)
           r == seen_get(results, identifier)
           target_dir == Div(OutDir, _sanitize_filename(results[r].target.identifier))
           stem == exports[area_i][2]
           node == e.item.software.nodes[exports[area_i][1]]
           out_path == Div(target_dir, stem \o ".aml")
           following == IF node = "raises" THEN after_failure(area_i) ELSE area_i + 1
       IN /\ results' = IF node = "ok"
                        THEN [results EXCEPT ![r][field_of(stem)] = out_path]
                        ELSE results
          /\ IF following > Len(exports)
             THEN hpc' = "items" /\ hi' = hi + 1 /\ area_i' = 1
             ELSE area_i' = following /\ UNCHANGED <<hpc, hi>>
    /\ UNCHANGED <<fs, genVars, logVars, moreVars, project, target_filter, targets, returned, scanVars,
                   validateVars, wizardVars, loaderVars, workerVars>>

\* line 137: return results
export_return ==
    /\ hpc = "items"
    /\ hi > Len(device_items(project))
    /\ returned' = results
    /\ hpc' = "done"
    /\ UNCHANGED <<fs, genVars, logVars, moreVars, project, target_filter, targets, hi, area_i, results,
                   scanVars, validateVars, wizardVars, loaderVars, workerVars>>

(***************************************************************************)
(* validate_candidate applied once                                         *)
(***************************************************************************)

Validate ==
    /\ cand_in # NoPath /\ cand_out = NoPath
    /\ cand_out' = validate_candidate(cand_in)
    /\ UNCHANGED <<fs, restVars, workerVars, cand_in, path_in, quality_out, scanVars, wizardVars, loaderVars>>

\* The primary file of a candidate recorded by its resolved path (_record_found) and rated
\* by assess_quality when _score_path_option weighs it as a path option.
AssessRecorded ==
    /\ cand_in # NoPath /\ path_in = NoPath
    /\ cand_in.engineering_dll # NoPath /\ exists(cand_in.engineering_dll)
    /\ path_in' = resolve(cand_in.engineering_dll)
    /\ quality_out' = assess_quality(resolve(cand_in.engineering_dll))
    /\ UNCHANGED <<fs, restVars, workerVars, cand_in, cand_out, scanVars, wizardVars, loaderVars>>

(***************************************************************************)
(* The machines and inputs the scan is checked on                          *)
(***************************************************************************)

\* At most MaxLinks symbolic links exist.
MaxLinks == 1

\* At most MaxFileDirs directories hold required files.
MaxFileDirs == 2

CoreLink == Div(PDLib, CORE_DLL_NAME)

LinkTargets ==
    (DSiemensLink :> PDSiemens) @@ (DPublicLink :> PDSiemens) @@ (CoreLink :> Div(PDSiemens, CORE_DLL_NAME))

LinkSets == {S \in SUBSET DOMAIN LinkTargets : Cardinality(S) <= MaxLinks}

ReqSet == {REQUIRED_DLLS[i] : i \in 1..Len(REQUIRED_DLLS)}

\* What a directory with required files holds: all of them, all but the last, or all but
\* the primary file.
FileOptions == {ReqSet, ReqSet \ {REQUIRED_DLLS[3]}, ReqSet \ {CORE_DLL_NAME}}

FilePlacements ==
    UNION {{[d \in RealDirs |-> IF d \in S THEN g[d] ELSE {}] : g \in [S -> FileOptions]} :
           S \in {T \in SUBSET FileDirs : Cardinality(T) <= MaxFileDirs}}

CoreFiles == {Div(d, CORE_DLL_NAME) : d \in RealDirs}

FileSystems ==
    {[dirs |-> RealDirs,
      links |-> [l \in S \ {CoreLink} |-> LinkTargets[l]],
      filelinks |-> [l \in S \cap {CoreLink} |-> LinkTargets[l]],
      files |-> f,
      version |-> [p \in CoreFiles |-> "17.0.0.1"],
      mtime |-> [p \in CoreFiles |-> Len(p)],
      nostat |-> {}] : S \in LinkSets, f \in FilePlacements}

DriveLists == {<<CDrive, DDrive>>, <<DDrive>>}

\* The parts of the program a specification does not run stay as constructed.
ScanIdle ==
    /\ drives = <<>> /\ pc = "idle" /\ gi = 1 /\ di = 1
    /\ roots = <<>> /\ stack = <<>>
    /\ seen_dirs = {} /\ seen_core_files = {}
    /\ yielded = <<>> /\ tried = <<>> /\ walked = {}

ValidateIdle == cand_in = NoPath /\ cand_out = NoPath /\ path_in = NoPath /\ quality_out = None

WizardIdle ==
    /\ valid_candidates = <<>> /\ wpc = "idle" /\ ranked = <<>>
    /\ _profile_saved = FALSE /\ saved_profile = NoPath /\ user_selected = FALSE
    /\ found_dlls = NoDlls /\ multi = NotRun /\ summary = None

NotBuilt == [search_dirs |-> <<>>, disk |-> <<>>, index |-> <<>>]

HmiIdle ==
    /\ project = <<>> /\ target_filter = NoFilter /\ hpc = "idle" /\ targets = <<>>
    /\ hi = 1 /\ area_i = 1 /\ results = <<>> /\ returned = NotReturned

GenIdle == taken = 0

LogIdle == call_log = <<>>

EnvIdle ==
    /\ public_api_dir = NoPath /\ derived = NotDerived
    /\ Path = "" /\ prev_Path = "" /\ env_calls = 0

\* The workers on_scan may create.
Workers == 1..MaxWorkers

RescanIdle ==
    /\ worker = 0 /\ started = 0
    /\ flags = [w \in Workers |-> FALSE] /\ at = [w \in Workers |-> "unstarted"]
    /\ todo = [w \in Workers |-> <<>>] /\ cand_of = [w \in Workers |-> NoPath]
    /\ founds = [w \in Workers |-> {}]
    /\ events = <<>> /\ rows = <<>> /\ self_candidates = <<>> /\ busy = FALSE /\ gui_at = "idle"
    /\ finished_log = <<>>

RootsIdle == root_dict = <<>> /\ additions = <<>> /\ added = <<>> /\ returned_roots = NoRoots

MoreIdle == EnvIdle /\ RescanIdle /\ RootsIdle

RestIdle == HmiIdle /\ GenIdle /\ LogIdle /\ MoreIdle

WorkerIdle ==
    /\ _abort = FALSE /\ wk = "idle" /\ to_scan = <<>> /\ cur = NoPath /\ found_global = {}
    /\ queue = <<>> /\ emitted = <<>> /\ table = <<>> /\ candidates = <<>> /\ gui = "idle"
    /\ emitted_at_abort = -1 /\ wk_at_abort = "" /\ table_at_abort = <<>>

LoaderIdle ==
    /\ disk = <<>> /\ _TIAEXP_RESOLVE_INSTALLED = FALSE /\ asm_index = <<>>
    /\ handlers = 0 /\ loads = <<>> /\ built = NotBuilt /\ request = <<>> /\ answer = None
    /\ prev_index = <<>>
    /\ unloadable = {} /\ report = NoReport /\ attempts = <<>>
    /\ ensure_dll = None /\ clr_result = NoResult

(***************************************************************************)
(* Spec: one run of discover_candidates on a machine of FileSystems        *)
(***************************************************************************)

Init ==
    /\ fs \in FileSystems
    /\ drives \in DriveLists
    /\ pc = "guesses" /\ gi = 1 /\ di = 1
    /\ roots = <<>> /\ stack = <<>>
    /\ seen_dirs = {} /\ seen_core_files = {}
    /\ yielded = <<>> /\ tried = <<>> /\ walked = {}
    /\ ValidateIdle /\ WizardIdle /\ LoaderIdle /\ WorkerIdle /\ RestIdle

Next == TryGuess \/ StartWalk \/ NextDrive \/ NextRoot \/ WalkStep \/ Finish

Spec == Init /\ [][Next]_vars

\* C1: no two yielded candidates have the same resolved, case-folded folder path, and no
\* two have the same resolved path of the primary required file.
C1_NoDuplicateCandidates ==
    \A i, j \in 1..Len(yielded) :
        i < j =>
            /\ _path_key(yielded[i].folder) # _path_key(yielded[j].folder)
            /\ (yielded[i].engineering_dll # NoPath /\ yielded[j].engineering_dll # NoPath)
               => resolve(yielded[i].engineering_dll) # resolve(yielded[j].engineering_dll)

\* C1 witness: the scan is over, one directory was tried twice (by a guess and by the walk,
\* or under a junction) and yielded once, and a second folder whose primary file resolves
\* to an already accepted file was tried and not yielded.
C1_Witness ==
    /\ pc = "done"
    /\ \E i, j \in 1..Len(tried) :
          /\ i < j /\ _path_key(tried[i]) = _path_key(tried[j])
          /\ \E k \in 1..Len(yielded) : yielded[k].folder = tried[i]
    /\ \E i \in 1..Len(tried), k \in 1..Len(yielded) :
          /\ exists(Div(tried[i], CORE_DLL_NAME))
          /\ _path_key(tried[i]) # _path_key(yielded[k].folder)
          /\ yielded[k].engineering_dll # NoPath
          /\ resolve(Div(tried[i], CORE_DLL_NAME)) = resolve(yielded[k].engineering_dll)
          /\ \A m \in 1..Len(yielded) : yielded[m].folder # tried[i]

\* C2 as stated: every child the walk met that matches the keyword predicate is kept.
C2_KeywordChildNeverPruned ==
    \A w \in walked : _path_has_keyword(Div(w.parent, w.child)) => w.kept

\* C2 as amended: a child that matches the keyword predicate is kept unless its name is on
\* the deny-list or starts with "~" or the child is a symbolic link, whatever the parent's
\* keyword status.
C2_KeywordChildKeptUnlessDenied ==
    \A w \in walked :
        (/\ _path_has_keyword(Div(w.parent, w.child))
         /\ lower(w.child) \notin SKIP_DIR_NAMES
         /\ ~startswith(lower(w.child), "~")
         /\ ~is_symlink(Div(w.parent, w.child)))
        => w.kept

\* C2 witness: a keyword child of a parent without keyword was met and kept.
C2_Witness ==
    \E w \in walked :
        /\ _path_has_keyword(Div(w.parent, w.child))
        /\ ~_path_has_keyword(w.parent)
        /\ w.kept

\* the name of a directory holds a keyword token
name_has_keyword(path) == has_keyword(lower(name(path)))

OtherCoreName == "Siemens.Engineering.x64.dll"

ValidateDirs == {PFV17, PFPortal, DDataPublicAPI, PDSiemens}

PlainFs(files) ==
    [dirs |-> RealDirs, links |-> <<>>, filelinks |-> <<>>, files |-> files,
     version |-> [p \in CoreFiles |-> "17.0.0.1"], mtime |-> [p \in CoreFiles |-> Len(p)], nostat |-> {}]

\* The folder holds the files named in present; with a target, its primary file is a link
\* to the file OtherCoreName in the target directory.
LinkedFs(folder, present, target) ==
    IF target = NoPath
    THEN PlainFs([d \in RealDirs |-> IF d = folder THEN present ELSE {}])
    ELSE [PlainFs([d \in RealDirs |-> IF d = folder THEN present \ {CORE_DLL_NAME}
                                      ELSE IF d = target THEN {OtherCoreName} ELSE {}])
            EXCEPT !.filelinks = (Div(folder, CORE_DLL_NAME) :> Div(target, OtherCoreName)),
                   !.version = [p \in {Div(target, OtherCoreName)} |-> "17.0.0.1"],
                   !.mtime = [p \in {Div(target, OtherCoreName)} |-> 7]]

\* found.get(name) for the files _collect_required saw
collected_get(folder, collected, n) == IF n \in collected THEN Div(folder, n) ELSE NoPath

\* The Candidate _try_emit builds from the files it collected in the folder; by the time
\* validate_candidate looks, some of them may be gone (present is what is left).
InitValidate ==
    /\ \E folder \in ValidateDirs, collected \in SUBSET ReqSet,
          target \in {NoPath} \cup ValidateDirs :
       \E present \in SUBSET collected :
          /\ target # folder
          /\ (target # NoPath => CORE_DLL_NAME \in present)
          /\ fs = LinkedFs(folder, present, target)
          /\ cand_in = Candidate(folder, collected_get(folder, collected, REQUIRED_DLLS[1]),
                                 collected_get(folder, collected, REQUIRED_DLLS[2]),
                                 collected_get(folder, collected, REQUIRED_DLLS[3]))
    /\ cand_out = NoPath /\ path_in = NoPath /\ quality_out = None
    /\ ScanIdle /\ WizardIdle /\ LoaderIdle /\ WorkerIdle /\ RestIdle

NextValidate == Validate \/ AssessRecorded

SpecValidate == InitValidate /\ [][NextValidate]_vars

\* Whether some component of the path contains the marker, case-insensitively.
HasMarker(path, marker) == \E i \in 1..Len(path) : contains(lower(path[i]), marker)

PrimaryPresent(c) == c.engineering_dll # NoPath /\ exists(c.engineering_dll)

\* The required names whose file does not exist when the candidate is validated.
Absent(c) ==
    {k \in 1..Len(REQUIRED_DLLS) : ~exists(Div(c.folder, REQUIRED_DLLS[k]))}

\* C3: every Candidate validate_candidate returns, and every candidate
\* discover_candidates yields, has is_valid exactly when missing is empty.
C3_ValidIffNothingMissing ==
    /\ cand_out # NoPath => (cand_out.is_valid <=> (cand_out.missing = <<>>))
    /\ \A i \in 1..Len(yielded) : yielded[i].is_valid <=> (yielded[i].missing = <<>>)

\* C3 witness: a candidate with its primary file and another file missing was returned
\* as invalid.
C3_Witness ==
    /\ cand_out # NoPath /\ PrimaryPresent(cand_in)
    /\ cand_out.missing # <<>> /\ ~cand_out.is_valid

\* C4: missing lists exactly the required names whose file does not exist, in
\* REQUIRED_DLLS order; a non-empty missing gives reason "Missing: " and the names joined
\* by ", "; with only the first two required files present the candidate is invalid with
\* missing = [third name].
C4_MissingInDeclarationOrder ==
    cand_out # NoPath =>
        LET c == cand_out
            absent == Absent(cand_in)
        IN /\ {c.missing[k] : k \in 1..Len(c.missing)} = {REQUIRED_DLLS[k] : k \in absent}
           /\ Len(c.missing) = Cardinality(absent)
           /\ \A a, b \in 1..Len(c.missing) :
                 a < b => \E ka, kb \in absent :
                             ka < kb /\ REQUIRED_DLLS[ka] = c.missing[a] /\ REQUIRED_DLLS[kb] = c.missing[b]
           /\ (absent = {2, 3}) =>
                 c.reason = "Missing: Siemens.Engineering.Hmi.dll, Siemens.Engineering.AddIn.dll"
           /\ (absent = {1}) => c.reason = "Missing: Siemens.Engineering.dll"
           /\ (absent # {}) => c.reason = "Missing: " \o join(", ", c.missing)
           /\ (absent = {3}) =>
                 ~c.is_valid /\ c.missing = <<"Siemens.Engineering.AddIn.dll">>

\* C4 witness: a candidate whose folder holds only the first two required files was
\* validated and got the third name as its missing list.
C4_Witness ==
    /\ cand_out # NoPath /\ Absent(cand_in) = {3}
    /\ cand_out.missing = <<REQUIRED_DLLS[3]>> /\ cand_out.reason = "Missing: " \o REQUIRED_DLLS[3]

\* The tier the precedence as stated gives a path.
TierByMarkersOnly(path) ==
    LET family == HasMarker(path, "publicapi")
        version == HasMarker(path, "v17")
        exactName == lower(name(path)) = "siemens.engineering.dll"
    IN IF family /\ version /\ exactName THEN "exact"
       ELSE IF version /\ ~family THEN "v17-path"
       ELSE IF family /\ ~version THEN "good"
       ELSE "heuristic"

\* The tier the precedence as amended gives a path.
TierByPrecedence(path) ==
    LET family == HasMarker(path, "publicapi")
        version == HasMarker(path, "v17")
        exactName == lower(name(path)) = "siemens.engineering.dll"
    IN IF family /\ version /\ exactName THEN "exact"
       ELSE IF version THEN "v17-path"
       ELSE IF family THEN "good"
       ELSE "heuristic"

\* C5 as stated: Exact with both markers and the exact file name, PathMatch with only the
\* version marker, PartialMatch with only the family marker, otherwise Heuristic; without
\* the primary file the quality is Heuristic and version and last_write are None.
C5_QualityByMarkersOnly ==
    /\ quality_out # None => quality_out = TierByMarkersOnly(path_in)
    /\ cand_out # NoPath =>
          IF PrimaryPresent(cand_in)
          THEN cand_out.quality = TierByMarkersOnly(cand_in.engineering_dll)
          ELSE cand_out.quality = "heuristic" /\ cand_out.version = None /\ cand_out.last_write = None

\* C5 as amended: Exact with both markers and the exact file name; otherwise PathMatch
\* whenever the version marker is present (also beside the family marker, when the file
\* name does not match); otherwise PartialMatch with the family marker; otherwise
\* Heuristic; without the primary file Heuristic, and version and last_write None.
C5_QualityPrecedence ==
    /\ quality_out # None => quality_out = TierByPrecedence(path_in)
    /\ cand_out # NoPath =>
          IF PrimaryPresent(cand_in)
          THEN cand_out.quality = TierByPrecedence(cand_in.engineering_dll)
          ELSE cand_out.quality = "heuristic" /\ cand_out.version = None /\ cand_out.last_write = None

\* C5 witness: a recorded primary path with both markers and another file name was rated
\* v17-path, and the candidate it belongs to was validated.
C5_Witness ==
    /\ quality_out = "v17-path"
    /\ HasMarker(path_in, "publicapi") /\ HasMarker(path_in, "v17")
    /\ name(path_in) = OtherCoreName
    /\ cand_out # NoPath /\ PrimaryPresent(cand_in)

(***************************************************************************)
(* SpecWizard: on_finished on every list of valid candidates               *)
(***************************************************************************)

\* At most MaxCandidates valid candidates arrive.
MaxCandidates == 2

WizardDirs == {PFV17, PDSiemens, PDLib}

\* The quality validate_candidate gives the primary file of each folder.
QualityOf == [d \in WizardDirs |-> assess_quality(Div(d, CORE_DLL_NAME))] @@ <<>>

\* on_finished ranks whatever self.valid_candidates holds.  on_found (wizard.py 338-339)
\* reads cand.note, a field Candidate does not have, before it appends a valid candidate,
\* so the lists are drawn here rather than produced by an on_found action.
\* A valid Candidate as on_found keeps it: validated with all three files present, the
\* version None when the PowerShell read failed, last_write None when stat() failed,
\* token "" when the reflection load failed.
delivered(folder, version, last_write, token) ==
    [Candidate(folder, Div(folder, REQUIRED_DLLS[1]), Div(folder, REQUIRED_DLLS[2]),
               Div(folder, REQUIRED_DLLS[3]))
        EXCEPT !.is_valid = TRUE, !.reason = None, !.quality = QualityOf[folder],
               !.version = version, !.last_write = last_write, !.token = token]

\* What the version read and the reflection load of a candidate can give.
LoadResults ==
    {[version |-> None, token |-> ""], [version |-> "17.0.0.1", token |-> ""],
     [version |-> "17.0.0.1", token |-> "d42cd6812c4d7940"]}

\* The sequences of distinct folders of length 1..MaxCandidates.
ArrivalOrders ==
    {o \in UNION {[1..n -> WizardDirs] : n \in 1..MaxCandidates} :
        \A i, j \in 1..Len(o) : i # j => o[i] # o[j]}

\* The required files of the directories of WizardDirs, as a function of the directory.
Placed(in_v17, in_siemens, in_lib) ==
    [d \in RealDirs |-> IF d = PFV17 THEN in_v17
                        ELSE IF d = PDSiemens THEN in_siemens
                        ELSE IF d = PDLib THEN in_lib ELSE {}]

\* Where a scan that delivered no valid candidate found the required files: nowhere;
\* one file in each of three directories; the primary file in two directories, one of
\* which has all three; one file nowhere; two directories with two files each.
Placements ==
    {Placed({}, {}, {}),
     Placed({REQUIRED_DLLS[1]}, {REQUIRED_DLLS[3]}, {REQUIRED_DLLS[2]}),
     Placed({REQUIRED_DLLS[1]}, {}, ReqSet),
     Placed({REQUIRED_DLLS[1]}, {}, {REQUIRED_DLLS[2]}),
     Placed({REQUIRED_DLLS[1], REQUIRED_DLLS[2]}, {}, {REQUIRED_DLLS[1], REQUIRED_DLLS[3]})}

\* found_global for the files of a placement
recorded(placement) ==
    {<<n, Div(d, n)>> : d \in WizardDirs, n \in ReqSet} \cap
        {x \in ReqSet \X {Div(d, n) : d \in WizardDirs, n \in ReqSet} :
            x[2] = Div(parent(x[2]), x[1]) /\ x[1] \in placement[parent(x[2])]}

\* The worker has run to its end and the finished signal is being delivered: either the
\* valid candidates of ArrivalOrders were delivered, or none was and the scan recorded
\* the files of a placement, of which some may have been removed since.
InitWizard ==
    /\ \/ /\ fs = PlainFs([d \in RealDirs |-> IF d \in WizardDirs THEN ReqSet ELSE {}])
          /\ \E order \in ArrivalOrders :
             \E loaded \in [1..Len(order) -> LoadResults],
                last_write \in [1..Len(order) -> {None, "1970-01-01 00:00:09", "1970-01-01 00:00:10"}] :
                /\ valid_candidates =
                      [i \in 1..Len(order) |->
                          delivered(order[i], loaded[i].version, last_write[i], loaded[i].token)]
                /\ found_global = {<<n, Div(order[i], n)>> : i \in 1..Len(order), n \in ReqSet}
       \/ /\ valid_candidates = <<>>
          /\ \E seen \in Placements, left \in Placements :
                /\ \A d \in RealDirs : left[d] \subseteq seen[d]
                /\ found_global = recorded(seen)
                /\ fs = PlainFs(left)
    /\ wpc = "scanning" /\ ranked = <<>>
    /\ _profile_saved = FALSE /\ saved_profile = NoPath /\ user_selected = FALSE
    /\ found_dlls = NoDlls /\ multi = NotRun /\ summary = None
    /\ _abort = FALSE /\ wk = "done" /\ to_scan = <<>> /\ cur = NoPath
    /\ queue = <<>> /\ emitted = <<>> /\ table = <<>> /\ candidates = <<>> /\ gui = "idle"
    /\ emitted_at_abort = -1 /\ wk_at_abort = "" /\ table_at_abort = <<>>
    /\ ScanIdle /\ ValidateIdle /\ LoaderIdle /\ RestIdle

NextWizard == on_finished \/ on_select \/ closeEvent

SpecWizard == InitWizard /\ [][NextWizard]_vars

C7_AutoSaveOnlyIfUnambiguous ==
    (wpc = "finished" /\ ~user_selected) =>
        LET n == Len(valid_candidates)
            top == {i \in 1..n : \A j \in 1..n : _score_candidate(valid_candidates[i]) >= _score_candidate(valid_candidates[j])}
        IN /\ _profile_saved =>
                /\ Cardinality(top) = 1
                /\ \A i \in top : saved_profile = valid_candidates[i].folder
           /\ Cardinality(top) > 1 => (~_profile_saved /\ saved_profile = NoPath)

\* C7 witness: on_finished has run on two candidates of equal top score and saved nothing.
C7_Witness ==
    /\ wpc = "finished" /\ ~user_selected /\ Len(valid_candidates) >= 2
    /\ _score_candidate(ranked[1]) = _score_candidate(ranked[2])
    /\ ~_profile_saved

(***************************************************************************)
(* SpecLoader: prepare_and_load calls, resolution requests and deletions   *)
(***************************************************************************)

DllFile(file, nm, culture, readable) ==
    [file |-> file, name |-> nm, culture |-> culture, readable |-> readable]

CoreAssembly == DllFile("Siemens.Engineering.dll", "Siemens.Engineering", "", TRUE)

ResourceAssembly ==
    DllFile("Siemens.Engineering.resources.dll", "Siemens.Engineering.resources", "de-DE", TRUE)

NativeDll == DllFile("native.dll", "", "", FALSE)

\* The directory contents the loader is checked on.
Disks ==
    {(DirPublicAPI :> a) @@ (DirBin :> b) @@ (DirCulture :> c) :
        a \in {<<>>, <<CoreAssembly>>},
        b \in {<<>>, <<CoreAssembly>>},
        c \in {<<>>, <<ResourceAssembly>>, <<NativeDll, ResourceAssembly>>}}

InitLoader ==
    /\ fs = PlainFs([d \in RealDirs |-> {}])
    /\ disk \in Disks
    /\ _TIAEXP_RESOLVE_INSTALLED = FALSE /\ asm_index = <<>>
    /\ handlers = 0 /\ loads = <<>> /\ built = NotBuilt /\ request = <<>> /\ answer = None
    /\ prev_index = <<>>
    /\ unloadable = {} /\ report = NoReport /\ attempts = <<>>
    /\ ensure_dll = None /\ clr_result = NoResult
    /\ ScanIdle /\ ValidateIdle /\ WizardIdle /\ WorkerIdle /\ RestIdle

NextLoader == PrepareAndLoad \/ ResolveRequest \/ DeleteFile

SpecLoader == InitLoader /\ [][NextLoader]_vars

(***************************************************************************)
(* SpecAbort: one scan of the worker thread against the abort button       *)
(***************************************************************************)

\* At most MaxScan candidates are yielded by the scan.
MaxScan == 3

\* A candidate as discover_candidates yields it: valid with all three files, or invalid
\* with the primary file alone.
scanned(folder, valid) ==
    IF valid THEN delivered(folder, "17.0.0.1", None, None)
    ELSE [Candidate(folder, Div(folder, REQUIRED_DLLS[1]), NoPath, NoPath)
             EXCEPT !.reason = "Missing: Siemens.Engineering.Hmi.dll, Siemens.Engineering.AddIn.dll",
                    !.missing = <<REQUIRED_DLLS[2], REQUIRED_DLLS[3]>>,
                    !.quality = QualityOf[folder], !.version = "17.0.0.1"]

\* The sequences of distinct folders of length 1..MaxScan.
ScanOrders ==
    {o \in UNION {[1..n -> WizardDirs] : n \in 1..MaxScan} :
        \A i, j \in 1..Len(o) : i # j => o[i] # o[j]}

\* on_scan has started the worker; nothing has been yielded yet.
InitAbort ==
    /\ fs = PlainFs([d \in RealDirs |-> IF d \in WizardDirs THEN ReqSet ELSE {}])
    /\ \E order \in ScanOrders : \E valid \in [1..Len(order) -> BOOLEAN] :
          to_scan = [i \in 1..Len(order) |-> scanned(order[i], valid[i])]
    /\ _abort = FALSE /\ wk = "next" /\ cur = NoPath /\ found_global = {}
    /\ queue = <<>> /\ emitted = <<>> /\ table = <<>> /\ candidates = <<>> /\ gui = "idle"
    /\ emitted_at_abort = -1 /\ wk_at_abort = "" /\ table_at_abort = <<>>
    /\ ScanIdle /\ ValidateIdle /\ WizardIdle /\ LoaderIdle /\ RestIdle

NextAbort ==
    run_next \/ run_check \/ run_emit \/ run_finally \/ on_abort \/ on_abort_return \/ on_found

SpecAbort == InitAbort /\ [][NextAbort]_vars

\* s is an initial part of t.
IsPrefix(s, t) == Len(s) <= Len(t) /\ SubSeq(t, 1, Len(s)) = s

\* C13 as stated: once abort() has set the flag, found is not emitted again, whatever
\* the worker was doing when the flag was set; the rows delivered before stay.
C13_NoEmissionAfterAbort ==
    _abort => (Len(emitted) = emitted_at_abort /\ IsPrefix(table_at_abort, table))

\* C13 as amended: once abort() has set the flag, found is emitted at most once more,
\* and only for the candidate whose flag test the worker had already passed when the
\* flag was set; signals emitted before may still be delivered to on_found afterwards,
\* in emission order; the rows delivered before the abort stay.
C13_AtMostOneEmissionAfterAbort ==
    _abort =>
        /\ Len(emitted) <= emitted_at_abort + (IF wk_at_abort = "emit" THEN 1 ELSE 0)
        /\ IsPrefix(table_at_abort, table)
        /\ IsPrefix(table, emitted)

\* C13 witness: the flag was set while candidates were still to come and after a row had
\* been delivered; the worker has ended without yielding the rest, and the row is
\* still there.
C13_Witness ==
    /\ _abort /\ wk = "done" /\ to_scan # <<>>
    /\ table_at_abort # <<>> /\ IsPrefix(table_at_abort, table)
    /\ Len(emitted) = emitted_at_abort

(***************************************************************************)
(* SpecLoad: load attempts over directories of loadable and broken files   *)
(***************************************************************************)

\* A managed assembly <name>.dll that reports the neutral identity (name, "").
Assembly(nm) == DllFile(nm \o ".dll", nm, "", TRUE)

\* A file named like the Hmi assembly whose identity cannot be read.
BrokenHmi == DllFile("Siemens.Engineering.Hmi.dll", "", "", FALSE)

\* A directory with the primary module and every optional one.
FullDir ==
    <<CoreAssembly>> \o [i \in 1..Len(optional_assemblies) |-> Assembly(optional_assemblies[i])]

\* FullDir without the file of the name nm.
Without(nm) == SelectSeq(FullDir, LAMBDA f : f.name # nm)

\* The directory contents the load attempts are checked on.
LoadDisks ==
    {(DirPublicAPI :> a) @@ (DirBin :> b) @@ (DirCulture :> <<>>) :
        a \in {FullDir, Without("Siemens.Engineering.Hmi"), Without("Siemens.Engineering")},
        b \in {<<>>, <<Assembly("Siemens.Engineering.Hmi")>>, <<CoreAssembly, BrokenHmi>>}}

\* The sets of files that do not load.
Unloadables ==
    {{},
     {dll_in(DirPublicAPI, "Siemens.Engineering.Hmi")},
     {dll_in(DirBin, "Siemens.Engineering.Hmi")},
     {dll_in(DirPublicAPI, "Siemens.Engineering")},
     {dll_in(DirPublicAPI, "Siemens.Engineering.HW"), dll_in(DirBin, "Siemens.Engineering.Hmi")},
     {dll_in(DirPublicAPI, "Siemens.Engineering"), dll_in(DirBin, "Siemens.Engineering")}}

InitLoad ==
    /\ fs = PlainFs([d \in RealDirs |-> {}])
    /\ disk \in LoadDisks
    /\ unloadable \in Unloadables
    /\ _TIAEXP_RESOLVE_INSTALLED = FALSE /\ asm_index = <<>>
    /\ handlers = 0 /\ loads = <<>> /\ built = NotBuilt /\ request = <<>> /\ answer = None
    /\ prev_index = <<>>
    /\ report = NoReport /\ attempts = <<>>
    /\ ensure_dll = None /\ clr_result = NoResult
    /\ ScanIdle /\ ValidateIdle /\ WizardIdle /\ WorkerIdle /\ RestIdle

NextLoad == PrepareAndLoad \/ EnsureClrAndLoad \/ PrepareAndLoadNoResolver

SpecLoad == InitLoad /\ [][NextLoad]_vars

\* The declared list: the primary module, then the optional ones.
Declared == <<"Siemens.Engineering">> \o optional_assemblies

\* C14: in every completed load attempt the primary module is attempted first and the
\* optional ones after it in their self_candidates order, each exactly once, whichever of them
\* failed to load or had no file.
C14_AttemptsInDeclaredOrder ==
    report # NoReport => attempts = Declared

\* C14 witness: a completed attempt in which the primary module failed to load, the
\* optional module Hmi did not load either, and AddIn, self_candidates after it, was loaded.
C14_Witness ==
    /\ report # NoReport
    /\ "Siemens.Engineering" \in DOMAIN report.prefetch_errors
    /\ "Siemens.Engineering.Hmi" \notin DOMAIN report.prefetched
    /\ "Siemens.Engineering.AddIn" \in DOMAIN report.prefetched

\* C15 as stated: in the report of a completed attempt every module of the declared list
\* is in exactly one of the maps loaded and failed; a module with no file is in failed.
C15_EveryModuleReported ==
    report # NoReport =>
        \A i \in 1..Len(Declared) :
            (Declared[i] \in DOMAIN report.prefetched)
                <=> (Declared[i] \notin DOMAIN report.prefetch_errors)

\* C20 as stated: an attempt in which the primary module cannot be located returns no
\* ordinary report (it fails as a whole), so a returned report has the primary's path.
C20_MissingPrimaryIsFatal ==
    report # NoReport => report.core_path # None

\* The last ensure_clr_and_load call got as far as prepare_and_load, whose report is the
\* current one.
EnsureRan == ensure_dll # None /\ clr_result.message # "pythonnet is not available"

\* The optional modules with a recorded load error.
FailedDependents ==
    {optional_assemblies[i] : i \in 1..Len(optional_assemblies)} \cap DOMAIN report.prefetch_errors

Reporting(dsk, d, k) ==
    {i \in 1..Len(dsk[d]) : dsk[d][i].readable /\ <<dsk[d][i].name, dsk[d][i].culture>> = k}

\* C8 as stated: when files of two search directories report the same (name, variant),
\* the index entry is the file of the directory that comes first in the search list.
C8_FirstDirectoryWins ==
    \A i, j \in 1..Len(built.search_dirs) :
        LET di_ == built.search_dirs[i]
            dj_ == built.search_dirs[j]
        IN (i < j /\ di_ \in DOMAIN built.disk /\ dj_ \in DOMAIN built.disk) =>
              \A k \in DOMAIN built.index :
                  (Reporting(built.disk, di_, k) # {} /\ Reporting(built.disk, dj_, k) # {}) =>
                      \E n \in Reporting(built.disk, di_, k) :
                          built.index[k] = full_path(di_, built.disk[di_][n])

\* The path the lookup order picks for a well-formed request: the entry of (name,
\* variant), else the entry of (name, ""), else None.
Chosen(cache, req) ==
    IF <<req[1], req[2]>> \in DOMAIN cache THEN cache[<<req[1], req[2]>>]
    ELSE IF <<req[1], "">> \in DOMAIN cache THEN cache[<<req[1], "">>]
    ELSE None

\* C9 as stated: a well-formed request is answered with the path indexed under (name,
\* variant) if present, otherwise the path under (name, ""), otherwise not resolved.
C9_AnsweredFromIndex ==
    Len(request) = 3 => answer = Chosen(asm_index, request)

\* C9 as amended: a well-formed request picks the path indexed under (name, variant) if
\* present, otherwise the path under (name, ""); it is answered with that path if the
\* file still exists and its load succeeds, and otherwise it is not resolved, with no
\* further fallback from a stale (name, variant) entry to the neutral one.
C9_AnsweredFromIndexIfLoadable ==
    Len(request) = 3 =>
        LET path == Chosen(asm_index, request)
        IN answer = (IF path # None /\ path_exists(path, disk) /\ request[3] THEN path ELSE None)

\* C9 witness: a request for a variant that is not indexed was answered with the path of
\* the neutral entry.
C9_Witness ==
    /\ Len(request) = 3 /\ request[2] # ""
    /\ <<request[1], request[2]>> \notin DOMAIN asm_index
    /\ <<request[1], "">> \in DOMAIN asm_index
    /\ answer # None /\ answer = asm_index[<<request[1], "">>]

\* C10: the process registers the resolve handler at most once, and the flag is set
\* exactly when the one handler is registered.
C10_RegisteredAtMostOnce ==
    /\ handlers <= 1
    /\ _TIAEXP_RESOLVE_INSTALLED <=> (handlers = 1)

\* C10 witness: two calls ran to the end, one handler is registered and the index is the
\* one the second call built.
C10_Witness ==
    /\ loads = <<"ok", "ok">> /\ handlers = 1 /\ _TIAEXP_RESOLVE_INSTALLED
    /\ asm_index = built.index /\ asm_index # <<>>

\* C11: whatever calls came before, a request the registered hook answers is answered
\* from the index the most recent _install_resolver call was given (the one the last
\* completed prepare_and_load built), never from the index that call replaced.
C11_AnsweredFromLatestIndex ==
    /\ (\E i \in 1..Len(loads) : loads[i] = "ok") => asm_index = built.index
    /\ Len(request) = 3 =>
          LET path == Chosen(built.index, request)
          IN answer = (IF path # None /\ path_exists(path, disk) /\ request[3] THEN path ELSE None)

\* C11 witness: the hook was registered by the first of two completed calls, and a
\* request was answered with a path of the second call's index that the first call's
\* index did not give.
C11_Witness ==
    /\ loads = <<"ok", "ok">> /\ handlers = 1
    /\ Len(request) = 3 /\ answer # None
    /\ answer = Chosen(built.index, request)
    /\ Chosen(prev_index, request) # answer

\* C12: the hook never raises to the runtime: whatever the request (a name that cannot
\* be parsed, no index entry, an indexed file that is gone, a load that throws), its
\* answer is None or the path of an existing file it loaded.
C12_HookNeverRaises ==
    request # <<>> =>
        /\ answer # Raised
        /\ answer = None \/ path_exists(answer, disk)
        /\ (Len(request) # 3 \/ ~request[3]) => answer = None

\* C12 witness: a request whose indexed file exists but whose load throws was answered
\* with None.
C12_Witness ==
    /\ Len(request) = 3 /\ ~request[3]
    /\ Chosen(asm_index, request) # None /\ path_exists(Chosen(asm_index, request), disk)
    /\ answer = None

\* The paths of the files of the searched directories of the snapshot that report the
\* name nm, neutral ones (localized = FALSE) or localized ones (localized = TRUE).
Reported(b, nm, localized) ==
    UNION {{full_path(d, b.disk[d][j]) :
                j \in {k \in 1..Len(b.disk[d]) :
                          LET f == b.disk[d][k]
                          IN f.readable /\ f.name = nm /\ ((f.culture # "") <=> localized)}} :
            d \in {b.search_dirs[i] : i \in 1..Len(b.search_dirs)} \cap DOMAIN b.disk}

\* C18: for every name that no neutral file of the search directories reports but a
\* localized file does, the index holds the key (name, "") too, and its path is a
\* localized file of that name.
C18_NeutralKeyForLocalizedOnly ==
    \A nm \in AssemblyNames :
        (Reported(built, nm, FALSE) = {} /\ Reported(built, nm, TRUE) # {}) =>
            /\ <<nm, "">> \in DOMAIN built.index
            /\ built.index[<<nm, "">>] \in Reported(built, nm, TRUE)

\* C18 witness: an index was built over directories where only a localized file reports
\* Siemens.Engineering.resources, and a request for its neutral variant was answered
\* with that localized file.
C18_Witness ==
    /\ Reported(built, "Siemens.Engineering.resources", FALSE) = {}
    /\ Reported(built, "Siemens.Engineering.resources", TRUE) # {}
    /\ request = <<"Siemens.Engineering.resources", "", TRUE>>
    /\ answer \in Reported(built, "Siemens.Engineering.resources", TRUE)

\* C16: the multi-directory candidate is tried only when the finished scan left no valid
\* single-directory candidate; the missing summary (total failure) is shown only after
\* that try gave no candidate; and with at least one valid candidate the ranking holds
\* the delivered candidates and no synthetic one.
C16_MultiOnlyWithoutValid ==
    /\ multi # NotRun => valid_candidates = <<>>
    /\ summary # None => (multi.outcome = "none" /\ valid_candidates = <<>>)
    /\ (wpc # "scanning" /\ valid_candidates = <<>>) => multi # NotRun
    /\ (wpc # "scanning" /\ valid_candidates # <<>>) =>
          /\ multi = NotRun /\ summary = None
          /\ Len(ranked) = Len(valid_candidates)
          /\ \A i \in 1..Len(ranked) : \E j \in 1..Len(valid_candidates) :
                ranked[i] = valid_candidates[j]

\* C16 witness: a scan that left no valid candidate recorded each required file
\* somewhere, one of them is gone by now, the multi-directory try gave no candidate and
\* the missing summary was shown.
C16_Witness ==
    /\ wpc = "finished" /\ valid_candidates = <<>>
    /\ \A i \in 1..Len(REQUIRED_DLLS) : found_dlls[REQUIRED_DLLS[i]] # <<>>
    /\ multi.outcome = "none" /\ summary # None

\* The scan recorded the primary file in PublicAPI\V17 of the portal (X) and in a bare
\* directory (Y), the other two files in Y alone, and all of them still exist.
TwoPrimaries ==
    /\ found_dlls[REQUIRED_DLLS[1]] =
          sorted_paths({Div(PFV17, REQUIRED_DLLS[1]), Div(PDLib, REQUIRED_DLLS[1])})
    /\ found_dlls[REQUIRED_DLLS[2]] = <<Div(PDLib, REQUIRED_DLLS[2])>>
    /\ found_dlls[REQUIRED_DLLS[3]] = <<Div(PDLib, REQUIRED_DLLS[3])>>
    /\ \A i \in 1..Len(REQUIRED_DLLS) : \A j \in 1..Len(found_dlls[REQUIRED_DLLS[i]]) :
          exists(found_dlls[REQUIRED_DLLS[i]][j])

\* C17 as stated: with the primary file in X and Y and the other two files in Y alone,
\* the multi-directory candidate is produced, takes the primary file from X and the
\* others from Y, has folder X, is marked as multi-directory and is valid.
C17_SyntheticFromBestOccurrences ==
    (wpc # "scanning" /\ valid_candidates = <<>> /\ TwoPrimaries) =>
        /\ multi.outcome = "built"
        /\ multi.cand[1].engineering_dll = Div(PFV17, REQUIRED_DLLS[1])
        /\ multi.cand[1].hmi_dll = Div(PDLib, REQUIRED_DLLS[2])
        /\ multi.cand[1].addin_dll = Div(PDLib, REQUIRED_DLLS[3])
        /\ multi.cand[1].folder = PFV17
        /\ multi.cand[1].is_valid
        /\ endswith(multi.cand[1].quality, "+multi")

\* C24: a prepare_and_load call on a platform whose resolution facility is unavailable,
\* or that cannot register the resolver, raises to its caller and passes no file to
\* add_reference, neither the primary module's nor a dependent's.
C24_NoLoadWithoutResolver ==
    \A i \in 1..Len(loads) :
        loads[i] \in ResolverOutcomes => call_log[i].raised /\ call_log[i].referenced = <<>>

\* C24 witness: the registration failed in a first call, which raised and loaded
\* nothing, and a second call over the same files loaded the primary module first.
C24_Witness ==
    /\ Len(loads) = 2
    /\ loads[1] = "register_fails" /\ call_log[1].raised /\ call_log[1].referenced = <<>>
    /\ loads[2] = "ok" /\ ~call_log[2].raised
    /\ call_log[2].referenced # <<>> /\ Head(call_log[2].referenced) = "Siemens.Engineering"

(***************************************************************************)
(* SpecExport: export_targets on projects of a few device items            *)
(***************************************************************************)

\* The most device items a project has in all.
MaxItems == 3

Areas == {exports[k][1] : k \in 1..Len(exports)}

\* What a software holds under each attribute of exports: "absent" (None), "ok" (a
\* node whose Export succeeds), "raises" (a node whose Export raises).
Nodes(text_lists, screens, alarms, recipes) ==
    [a \in Areas |-> CASE a = "TextListFolder" -> text_lists
                       [] a = "ScreenFolder" -> screens
                       [] a = "AlarmClasses" -> alarms
                       [] a = "RecipeManagement" -> recipes]

Software(nm, full_name, nodes) == [Name |-> nm, FullName |-> full_name, nodes |-> nodes]

HmiType == "Siemens.Engineering.Hmi.HmiTarget"

\* The device items of the projects: a PLC software, an item whose GetService raises,
\* and HMI softwares of two names that differ in case only.
ItemKinds ==
    { [service |-> "ok",
       software |-> Software("PLC_1", "Siemens.Engineering.SW.PlcSoftware",
                             Nodes("absent", "absent", "absent", "absent"))],
      [service |-> "raises",
       software |-> Software("", "", Nodes("absent", "absent", "absent", "absent"))],
      [service |-> "ok", software |-> Software("HMI 1", HmiType, Nodes("ok", "ok", "ok", "ok"))],
      [service |-> "ok",
       software |-> Software("HMI 1", HmiType, Nodes("raises", "ok", "absent", "ok"))],
      [service |-> "ok",
       software |-> Software("hmi 1", HmiType, Nodes("ok", "raises", "raises", "absent"))] }

DeviceNames == {"HMI Panel", "Line.2"}

RECURSIVE devices_of(_)
\* the devices of a list of (device name, item): neighbours of one name are one device
devices_of(flat) ==
    IF flat = <<>> THEN <<>>
    ELSE LET rest == devices_of(Tail(flat))
         IN IF rest # <<>> /\ Head(rest).Name = Head(flat).device_name
            THEN <<[Name |-> Head(flat).device_name,
                    DeviceItems |-> <<Head(flat).item>> \o Head(rest).DeviceItems]>>
                 \o Tail(rest)
            ELSE <<[Name |-> Head(flat).device_name, DeviceItems |-> <<Head(flat).item>>]>>
                 \o rest

Projects ==
    {devices_of(flat) :
        flat \in UNION {[1..n -> [device_name : DeviceNames, item : ItemKinds]] : n \in 1..MaxItems}}

\* The selections _selected_identifiers gives: None with no row selected, else the
\* identifiers of the selected rows.
Filters == {NoFilter, {"HMI Panel::HMI 1::" \o HmiType}, {"Line.2::hmi 1::" \o HmiType}}

InitExport ==
    /\ fs = PlainFs([d \in RealDirs |-> {}])
    /\ project \in Projects
    /\ target_filter \in Filters
    /\ hpc = "start" /\ targets = <<>> /\ hi = 1 /\ area_i = 1
    /\ results = <<>> /\ returned = NotReturned
    /\ ScanIdle /\ ValidateIdle /\ WizardIdle /\ LoaderIdle /\ WorkerIdle /\ GenIdle /\ LogIdle
    /\ MoreIdle

NextExport == export_targets \/ visit_item \/ export_area \/ export_return

SpecExport == InitExport /\ [][NextExport]_vars

\* the identifiers of the HMI softwares of the project, device by device, item by item
hmi_identifiers(devices) ==
    LET its == SelectSeq(device_items(devices), LAMBDA e : gives_hmi(e.item))
    IN [k \in 1..Len(its) |-> _make_target_identifier(its[k].device_name, its[k].item.software)]

\* the filter accepts an identifier: there is none, or it names it up to case
accepts(tfilter, identifier) ==
    tfilter = NoFilter \/ \E f \in tfilter : lower(f) = lower(identifier)

\* the elements of a sequence at their first occurrence
first_occurrences(s) ==
    LET keep == {k \in 1..Len(s) : \A j \in 1..(k - 1) : s[j] # s[k]}
        nth[n \in 0..Len(s)] ==
            IF n = 0 THEN 0 ELSE CHOOSE k \in keep : k > nth[n - 1] /\ \A j \in keep : j > nth[n - 1] => k <= j
    IN [n \in 1..Cardinality(keep) |-> s[nth[n]]]

\* an export call of the area succeeded for a software of the identifier
export_succeeded(devices, identifier, attr_name) ==
    \E k \in 1..Len(device_items(devices)) :
        LET e == device_items(devices)[k]
        IN /\ gives_hmi(e.item)
           /\ _make_target_identifier(e.device_name, e.item.software) = identifier
           /\ e.item.software.nodes[attr_name] = "ok"

\* C21: export_targets returns exactly one result per distinct HMI target identifier the
\* filter accepts, in device order; each path field is out_dir/<sanitized
\* identifier>/<stem>.aml exactly when an export call of that area succeeded and None
\* otherwise, whatever exports failed before it.
C21_OneResultPerTargetWithPaths ==
    hpc = "done" =>
        /\ [r \in 1..Len(returned) |-> returned[r].target.identifier]
              = first_occurrences(SelectSeq(hmi_identifiers(project),
                                            LAMBDA id : accepts(target_filter, id)))
        /\ \A r \in 1..Len(returned), a \in 1..Len(exports) :
              returned[r][field_of(exports[a][2])]
                 = IF export_succeeded(project, returned[r].target.identifier, exports[a][1])
                   THEN Div(Div(OutDir, _sanitize_filename(returned[r].target.identifier)),
                            exports[a][2] \o ".aml")
                   ELSE NoPath

\* C21 witness: a project of three device items was exported under a filter; of one
\* target the text lists raised and the alarms were absent, and its screens and recipes
\* were exported all the same.
C21_Witness ==
    /\ hpc = "done"
    /\ target_filter # NoFilter
    /\ Len(device_items(project)) = 3
    /\ Len(hmi_identifiers(project)) > Len(returned)
    /\ \E r \in 1..Len(returned) :
          /\ returned[r].text_list_path = NoPath
          /\ returned[r].alarm_path = NoPath
          /\ returned[r].screen_path
                = <<"C:\\", "out", "HMI_Panel_HMI_1_Siemens.Engineering.Hmi.HmiTarget", "screens.aml">>
          /\ returned[r].recipe_path
                = <<"C:\\", "out", "HMI_Panel_HMI_1_Siemens.Engineering.Hmi.HmiTarget", "recipes.aml">>

(***************************************************************************)
(* SpecWalkAbort: the worker thread running discover_candidates against    *)
(* the abort button                                                        *)
(***************************************************************************)

\* The machines without links.
PlainFileSystems == {f \in FileSystems : DOMAIN f.links = {} /\ DOMAIN f.filelinks = {}}

InitWalkAbort ==
    /\ fs \in PlainFileSystems
    /\ drives = <<CDrive, DDrive>>
    /\ pc = "guesses" /\ gi = 1 /\ di = 1
    /\ roots = <<>> /\ stack = <<>>
    /\ seen_dirs = {} /\ seen_core_files = {}
    /\ yielded = <<>> /\ tried = <<>> /\ walked = {}
    /\ _abort = FALSE /\ wk = "next" /\ to_scan = <<>> /\ cur = NoPath /\ found_global = {}
    /\ queue = <<>> /\ emitted = <<>> /\ table = <<>> /\ candidates = <<>> /\ gui = "idle"
    /\ emitted_at_abort = -1 /\ wk_at_abort = "" /\ table_at_abort = <<>>
    /\ taken = 0
    /\ ValidateIdle /\ WizardIdle /\ LoaderIdle /\ HmiIdle /\ LogIdle /\ MoreIdle

NextWalkAbort ==
    gen_step \/ take_candidate \/ loop_end \/ run_check \/ run_emit \/ run_finally \/ on_abort

SpecWalkAbort == InitWalkAbort /\ [][NextWalkAbort]_vars

\* C23: once the abort flag is set the scan visits no further directory: the generator
\* hands no further folder to _try_emit, whether or not candidates remain.
C23_NoVisitAfterAbort == [][_abort => tried' = tried]_vars


(***************************************************************************)
(* _discover_dirs and _prepare_env over small installations                *)
(***************************************************************************)
PortalRoots == {<<"C:\\", "TIA">>, <<"C:\\", "Software Installs">>}

\* The folders an installation under a portal root may hold next to PublicAPI\V17.
BinTree(root) ==
    {Div(root, "bin"), Div(Div(root, "bin"), "PublicAPI"),
     Div(Div(Div(root, "bin"), "PublicAPI"), "V17")}

SiblingTree(root) ==
    {Div(Div(root, "PublicAPI"), "PublicAPI_V16"),
     Div(Div(Div(root, "PublicAPI"), "PublicAPI_V16"), "V17")}

LocaleDirs(root) ==
    {Div(Div(Div(root, "PublicAPI"), "V17"), "de-DE"), Div(Div(root, "PublicAPI"), "en-US")}

BinLocaleDirs(root) ==
    {Div(Div(root, "bin"), "de-DE"), Div(root, "en-US"),
     Div(Div(Div(Div(root, "bin"), "PublicAPI"), "V17"), "fr-FR")}

OptionalDirs(root) ==
    {{}, BinTree(root), BinTree(root) \cup LocaleDirs(root),
     BinTree(root) \cup BinLocaleDirs(root),
     SiblingTree(root) \cup LocaleDirs(root),
     BinTree(root) \cup SiblingTree(root)
         \cup {Div(Div(Div(root, "PublicAPI"), "PublicAPI_V16"), "de-DE")}}

\* bin64 is missing, a folder, a junction to bin, or a regular file of that name
Bin64Kinds == {"missing", "dir", "link", "file"}

DirFs(root, optional, bin64) ==
    LET dirs == {<<"C:\\">>, root, Div(root, "PublicAPI"), Div(Div(root, "PublicAPI"), "V17")}
                    \cup optional \cup (IF bin64 = "dir" THEN {Div(root, "bin64")} ELSE {})
    IN [dirs |-> dirs,
        links |-> IF bin64 = "link" THEN (Div(root, "bin64") :> Div(root, "bin")) ELSE <<>>,
        filelinks |-> <<>>,
        files |-> [d \in dirs |->
                      IF d = Div(Div(root, "PublicAPI"), "V17") THEN {CORE_DLL_NAME}
                      ELSE IF d = root /\ bin64 = "file" THEN {"bin64"}
                      ELSE {}],
        version |-> <<>>, mtime |-> <<>>, nostat |-> {}]

\* The argument: the version folder, the primary file in it, the PublicAPI folder, a
\* version folder that does not exist, a folder on a missing tree, or None.
Arguments(root) ==
    {Div(Div(root, "PublicAPI"), "V17"),
     Div(Div(Div(root, "PublicAPI"), "V17"), CORE_DLL_NAME),
     Div(root, "PublicAPI"),
     Div(Div(root, "PublicAPI"), "V18"),
     <<"C:\\", "Missing", "V17">>,
     NoPath}

\* The search path of the process before the first call.
InitialPaths ==
    {"", "C:\\Windows;C:\\Tools",
     "C:\\Windows;;C:\\Tools\\; ",
     "D:\\Software Installs\\bin\\;C:\\Windows",
     "c:\\tia\\publicapi\\v17\\;C:\\Windows;C:\\TIA"}

InitDirs ==
    /\ \E root \in PortalRoots :
          /\ fs \in {DirFs(root, optional, bin64) :
                        optional \in OptionalDirs(root), bin64 \in Bin64Kinds}
          /\ public_api_dir \in Arguments(root)
    /\ derived = NotDerived
    /\ Path \in InitialPaths /\ prev_Path = "" /\ env_calls = 0
    /\ ScanIdle /\ ValidateIdle /\ WizardIdle /\ LoaderIdle /\ WorkerIdle
    /\ HmiIdle /\ GenIdle /\ LogIdle /\ RescanIdle /\ RootsIdle

NextDirs == DiscoverAndPrepare

SpecDirs == InitDirs /\ [][NextDirs]_vars



\* the key of each path of the derivation that exists ("" for one that does not)
derivation_keys ==
    [i \in 1..Len(derivation(public_api_dir)) |->
        IF exists(derivation(public_api_dir)[i])
        THEN lower(str(resolve(derivation(public_api_dir)[i]))) ELSE ""]

derived_keys == [i \in 1..Len(derived) |-> lower(str(resolve(PathOf(derived[i]))))]

first_occurrence(keys, k) == CHOOSE i \in 1..Len(keys) : keys[i] = k /\ \A j \in 1..(i - 1) : keys[j] # k

\* The list holds one entry for each existing path of the derivation, without two
\* entries of one key, in the order of the first occurrences, the chosen root first.
deduplicated_in_order(keys, dkeys) ==
    /\ \A i, j \in 1..Len(dkeys) : i < j => dkeys[i] # dkeys[j]
    /\ \A i \in 1..Len(dkeys) : \E k \in 1..Len(keys) : keys[k] = dkeys[i]
    /\ \A k \in 1..Len(keys) : keys[k] # "" => \E i \in 1..Len(dkeys) : dkeys[i] = keys[k]
    /\ \A i, j \in 1..Len(dkeys) :
          i < j => first_occurrence(keys, dkeys[i]) < first_occurrence(keys, dkeys[j])
    /\ exists(public_dir_of(public_api_dir))
          => /\ derived # <<>>
             /\ derived[1] = str(resolve(public_dir_of(public_api_dir)))

\* C25 as stated: the search directories derived from the chosen root are existing
\* directories only, no two of them have resolved paths that are equal without regard
\* to case, each stands at the place of its first occurrence in the derivation, and the
\* chosen root comes before its parent, the product root, bin, bin64 and the culture
\* folders.
C25_OnlyExistingDirectories ==
    derived # NotDerived =>
        /\ \A i \in 1..Len(derived) : is_dir(PathOf(derived[i]))
        /\ deduplicated_in_order(derivation_keys, derived_keys)

\* C25 amended: the same, with entries that exist but need not be directories (a
\* regular file that bears a derived name is self_candidates too).
C25_OnlyExistingPaths ==
    derived # NotDerived =>
        /\ \A i \in 1..Len(derived) : exists(PathOf(derived[i]))
        /\ deduplicated_in_order(derivation_keys, derived_keys)

\* C25 witness: a list of several entries was derived from an existing root, one of the
\* entries being a regular file.
C25_Witness ==
    /\ derived # NotDerived /\ Len(derived) >= 5
    /\ exists(public_dir_of(public_api_dir))
    /\ \E i \in 1..Len(derived) : is_file(PathOf(derived[i]))

\* C26: for every directory D collected before the culture folders are appended (the
\* root, its parent, the product root, bin and bin64, their nested public-API folders and
\* the public-API siblings) and every culture name L, D\L is in the derived list when it
\* exists.
C26_CulturesOfEveryCollectedDir ==
    derived # NotDerived =>
        \A i \in 1..Len(candidates_before_cultures(public_api_dir)) :
            \A c \in 1..Len(_CULTURES) :
                LET folder == Div(candidates_before_cultures(public_api_dir)[i], _CULTURES[c])
                IN exists(folder) =>
                       \E k \in 1..Len(derived) : derived[k] = str(resolve(folder))



\* the entries of a search path: the pieces between the separators that are not blank
entries_of(path) == SelectSeq(split(path, ";"), LAMBDA p : ~is_blank(p))

\* C27: after _prepare_env the search path is the derived directories that were not
\* present (compared lower-cased, without trailing separators), in derived order, then
\* the previous entries in their order without those matching the conflict suffix; and a
\* second call with the same directories leaves the path as it was.
C27_PathAfterPrepareEnv ==
    env_calls >= 1 =>
        LET kept == SelectSeq(entries_of(prev_Path),
                              LAMBDA p : ~endswith(_norm(p), conflict_suffix))
            prepended == SelectSeq(derived,
                               LAMBDA d : \A i \in 1..Len(kept) : _norm(kept[i]) # _norm(d))
        IN /\ Path = join(";", prepended \o kept)
           /\ env_calls >= 2 => Path = prev_Path



(***************************************************************************)
(* A scan that is started again while it runs                              *)
(***************************************************************************)
\* The sequences of distinct folders a scan yields here: one or two candidates, of two
\* folders.
RescanOrders ==
    {o \in ScanOrders : Len(o) <= 2 /\ \A i \in 1..Len(o) : o[i] \in {PFV17, PDSiemens}}

RescanLists ==
    UNION {{[i \in 1..Len(order) |-> scanned(order[i], valid[i])] :
               valid \in [1..Len(order) -> BOOLEAN]} : order \in RescanOrders}

\* on_scan has started the first worker; the second worker will scan what its own
\* generator yields.
InitRescan ==
    /\ fs = PlainFs([d \in RealDirs |-> IF d \in WizardDirs THEN ReqSet ELSE {}])
    /\ worker = 1 /\ started = 1
    /\ flags = [w \in Workers |-> FALSE]
    /\ at = [w \in Workers |-> IF w = 1 THEN "next" ELSE "unstarted"]
    /\ todo \in [Workers -> RescanLists]
    /\ cand_of = [w \in Workers |-> NoPath]
    /\ founds = [w \in Workers |-> {}]
    /\ events = <<>> /\ rows = <<>> /\ self_candidates = <<>> /\ busy = TRUE /\ gui_at = "idle"
    /\ finished_log = <<>>
    /\ ScanIdle /\ ValidateIdle /\ WizardIdle /\ LoaderIdle /\ WorkerIdle
    /\ HmiIdle /\ GenIdle /\ LogIdle /\ EnvIdle /\ RootsIdle

NextRescan ==
    \/ on_scan
    \/ on_scan_resume
    \/ \E w \in Workers : worker_next(w)
    \/ \E w \in Workers : worker_check(w)
    \/ \E w \in Workers : worker_emit(w)
    \/ \E w \in Workers : worker_finally(w)
    \/ slot_on_found
    \/ slot_on_finished

SpecRescan == InitRescan /\ [][NextRescan]_vars

\* C28: when on_scan starts a new worker while the previous one runs, nothing the
\* previous worker does afterwards reaches the new scan: the table and self.candidates
\* hold entries of the worker started last only, and no on_finished run that answers
\* the previous worker's signal finds self.worker referring to the new worker while
\* that worker has not finished.
C28_PreviousWorkerIsolated ==
    /\ \A i \in 1..Len(rows) : rows[i].sender = started
    /\ \A i \in 1..Len(self_candidates) : self_candidates[i].sender = started
    /\ \A i \in 1..Len(finished_log) :
          finished_log[i].referred # 0 /\ finished_log[i].sender # finished_log[i].referred
              => finished_log[i].referred_at = "done"



(***************************************************************************)
(* _index_managed over neutral and localized files of one module name      *)
(***************************************************************************)
\* A localized file that reports the name of the primary module.
LocalizedCore == DllFile("Siemens.Engineering.de.dll", "Siemens.Engineering", "de-DE", TRUE)

\* What a directory may hold, in glob order.
IndexContents ==
    {<<>>, <<CoreAssembly>>, <<LocalizedCore>>, <<CoreAssembly, LocalizedCore>>,
     <<LocalizedCore, CoreAssembly>>, <<NativeDll, LocalizedCore>>}

IndexDisks ==
    {(DirPublicAPI :> a) @@ (DirBin :> b) @@ (DirCulture :> c) :
        a \in IndexContents, b \in IndexContents, c \in {<<>>, <<LocalizedCore>>}}

InitIndex ==
    /\ fs = PlainFs([d \in RealDirs |-> {}])
    /\ disk \in IndexDisks
    /\ _TIAEXP_RESOLVE_INSTALLED = FALSE /\ asm_index = <<>>
    /\ handlers = 0 /\ loads = <<>> /\ built = NotBuilt /\ request = <<>> /\ answer = None
    /\ prev_index = <<>>
    /\ unloadable = {} /\ report = NoReport /\ attempts = <<>>
    /\ ensure_dll = None /\ clr_result = NoResult
    /\ ScanIdle /\ ValidateIdle /\ WizardIdle /\ WorkerIdle /\ RestIdle

NextIndex == PrepareAndLoad

SpecIndex == InitIndex /\ [][NextIndex]_vars

\* the files of the directories of the last _index_managed call whose identity was read,
\* as <<position of the directory, position in the directory, file>>, in scan order
scanned_files ==
    UNION {{<<i, j, built.disk[built.search_dirs[i]][j]>> :
               j \in {k \in 1..Len(built.disk[built.search_dirs[i]]) :
                         built.disk[built.search_dirs[i]][k].readable}} :
           i \in {k \in 1..Len(built.search_dirs) : built.search_dirs[k] \in DOMAIN built.disk}}

\* C29: whenever a neutral file of module name N is among the files scanned, the entry
\* (N, "") of the index is the path of a neutral file of N, whatever the order in which
\* the neutral and the localized files of N were scanned.
C29_NeutralEntryIsNeutralFile ==
    built # NotBuilt =>
        \A x \in scanned_files :
            x[3].culture = "" =>
                /\ <<x[3].name, "">> \in DOMAIN built.index
                /\ \E y \in scanned_files :
                      /\ y[3].name = x[3].name /\ y[3].culture = ""
                      /\ built.index[<<x[3].name, "">>]
                             = full_path(built.search_dirs[y[1]], y[3])

\* C29 witness: an index was built over a localized file of the primary module scanned
\* before a neutral one and another scanned after a neutral one.
C29_Witness ==
    /\ built # NotBuilt
    /\ \E x, y, z \in scanned_files :
          /\ x[3] = LocalizedCore /\ y[3] = CoreAssembly /\ z[3] = LocalizedCore
          /\ (x[1] < y[1] \/ (x[1] = y[1] /\ x[2] < y[2]))
          /\ (y[1] < z[1] \/ (y[1] = z[1] /\ y[2] < z[2]))
    /\ built.index[<<"Siemens.Engineering", "">>] \in
           {full_path(d, CoreAssembly) : d \in SearchNames}



(***************************************************************************)
(* _candidate_roots: the additions of a drive and short sequences of them  *)
(***************************************************************************)
DPortalLink == <<"D:\\", "Portal V17">>

DTiaLink == <<"D:\\", "TIA Portal">>

\* Links on D: to folders of C: that lie below one another.
RootLinks == (DSiemensLink :> PDSiemens) @@ (DPortalLink :> PFPortal) @@ (DTiaLink :> PFSiemens)

RootSystems ==
    {[dirs |-> RealDirs, links |-> [l \in S |-> RootLinks[l]], filelinks |-> <<>>,
      files |-> [d \in RealDirs |-> {}], version |-> <<>>, mtime |-> <<>>, nostat |-> {}] :
        S \in SUBSET DOMAIN RootLinks}

\* The paths the short sequences are made of.
AddPaths ==
    {PFSiemens, PFAutomation, PFPortal, PDSiemens, PDLib, DSiemensLink, DPortalLink, DTiaLink,
     <<"C:\\", "Missing">>}

\* At most MaxAdds calls of add in a sequence that is not the one of a drive.
MaxAdds == 3

InitRoots ==
    /\ fs \in RootSystems
    /\ additions \in {additions_of(CDrive), additions_of(DDrive)}
                        \cup UNION {[1..n -> AddPaths] : n \in 1..MaxAdds}
    /\ root_dict = <<>> /\ added = <<>> /\ returned_roots = NoRoots
    /\ ScanIdle /\ ValidateIdle /\ WizardIdle /\ LoaderIdle /\ WorkerIdle
    /\ HmiIdle /\ GenIdle /\ LogIdle /\ EnvIdle /\ RescanIdle

NextRoots == add \/ return_roots

SpecRoots == InitRoots /\ [][NextRoots]_vars

\* the resolved path a lies below the resolved path b
lies_below(a, b) == Len(resolve(a)) > Len(resolve(b)) /\ IsPrefix(resolve(b), resolve(a))

\* no path of the list lies below, or resolves to, another path of the list
non_nested(paths) ==
    \A i, j \in 1..Len(paths) :
        i # j => ~lies_below(paths[i], paths[j]) /\ resolve(paths[i]) # resolve(paths[j])

\* C30: after every call of add the roots kept are pairwise non-nested (a call with a
\* path below a kept root changes nothing, a call with a path above kept roots removes
\* each of them), and the list returned holds the kept roots, none below another, sorted
\* by their normalized paths.
C30_RootsNeverNested ==
    [][/\ non_nested([i \in 1..Len(root_dict') |-> root_dict'[i][2]])
       /\ additions' # additions =>
             LET path == Head(additions)
                 kept == {root_dict[i][2] : i \in 1..Len(root_dict)}
                 kept_after == {root_dict'[i][2] : i \in 1..Len(root_dict')}
             IN /\ (\E r \in kept : lies_below(path, r)) => root_dict' = root_dict
                /\ is_dir(path) => \A r \in kept : lies_below(r, path) => r \notin kept_after
       /\ returned_roots' # NoRoots =>
             /\ non_nested(returned_roots')
             /\ {returned_roots'[i] : i \in 1..Len(returned_roots')}
                    = {root_dict'[i][2] : i \in 1..Len(root_dict')}
             /\ \A i, j \in 1..Len(returned_roots') :
                   i < j => strLess(_path_key(returned_roots'[i]), _path_key(returned_roots'[j]))
      ]_vars

\* C30 witness: the roots were returned, two or more, after a call with a path below a
\* kept root and a call with a path above a kept root.
C30_Witness ==
    /\ returned_roots # NoRoots /\ Len(returned_roots) >= 2
    /\ \E i, j \in 1..Len(added) :
          i < j /\ is_dir(added[i]) /\ is_dir(added[j]) /\ lies_below(added[j], added[i])
    /\ \E i, j \in 1..Len(added) :
          i < j /\ is_dir(added[i]) /\ is_dir(added[j]) /\ lies_below(added[i], added[j])


====
